---- MODULE Spec2Model ----
(***************************************************************************)
(* Feishu channel gateway: message deduplication cache (dedupe.ts), group  *)
(* history manager (history part of dispatch.ts) and the inbound message   *)
(* handler that wires them together (channel gateway, handleInboundMessage).*)
(*                                                                         *)
(* A JavaScript Set / Map iterates in insertion order, so both are modelled *)
(* as sequences without repetition, oldest insertion first.                *)
(***************************************************************************)
EXTENDS Integers, Sequences, FiniteSets, TLC

(***************************************************************************)
(* Bounds of the exploration.                                              *)
(***************************************************************************)
\* largest maxSize option of the dedupe cache that is explored
MaxSizeBound == 3
\* largest maxGroups option of the history manager that is explored
MaxGroupsBound == 2
\* largest historyLimit option of the history manager that is explored
MaxHistoryLimit == 2
\* number of deliveries the transport makes in one run of the pipeline
MaxDeliveries == 3
\* keep-alive frames without a response that are counted
MaxUnanswered == 2
\* number of blocks an explored reply text is made of
MaxChunks == 3
\* start() calls on a client that is not idle that are explored, counted by
\* what they leave behind: connects in flight, sockets whose close event is
\* to come, sockets and heartbeat intervals no variable refers to
MaxStray == 1

\* message ids a payload can carry; message_id is copied unvalidated from the
\* payload, so the empty string is one of them
MessageIds == {"", "m1", "m2", "m3", "m4"}
\* chat ids a payload can carry (chat_id is copied unvalidated as well)
ChatIds == {"", "c1", "c2"}
\* history entries, identified by the messageId field they carry
Entries == {"m1", "m2"}

\* value of an iterator result past the end, and of a Map miss
Undefined == "<undefined>"

VARIABLES
  \* ---- createFeishuDedupeCache
  maxSize,            \* option maxSize
  cleanupThreshold,   \* option cleanupThreshold
  processedMessages,  \* the Set, in insertion order
  everMarked,         \* history: ids passed to markProcessed so far
  lost,               \* history: ids removed by cleanup or clear since they
                      \*          were last passed to markProcessed
  lastDedupe,         \* history: the last call on the cache and what it did
  \* ---- createGroupHistoryManager
  historyLimit,       \* option historyLimit
  maxGroups,          \* option maxGroups
  groupHistories,     \* the Map, in insertion order: <<[key, val]>>
  recOrder,           \* history: chats ordered by their last record call
  recordedTo,         \* history: entries recorded to a chat since it was last
                      \*          cleared or evicted (a window of the latest)
  distinctOnly,       \* history: only record calls, each to a new chat, and
                      \*          get calls so far
  lastHist,           \* history: the last call on the manager and what it did
  \* ---- handleInboundMessage
  handlers,           \* the deliveries in flight or finished, in arrival order
  passed,             \* history: per id, deliveries that passed the dedup check
                      \*          since the id was last inserted into the cache
  dispatched,         \* history: the context payloads handed to
                      \*          dispatchFeishuMessage, in order
  recordCalls,        \* history: per message id, the history.record calls made
                      \*          with its entry
  account,            \* the resolved account: policies and the bot's identity
  \* ---- buildFeishuMessageContext / isBotMentioned called on their own
  lastGate,           \* history: the last call and what it returned
  \* ---- createNativeWSClient, with the gateway's onStateChange as handler
  state,              \* WSConnectionState
  ws,                 \* "null", or the readyState of the socket ws refers to
  closing,            \* sockets closed by cleanup whose close event is still
                      \*   to come
  heartbeatInterval,  \* TRUE while the interval is set
  reconnectTimeout,   \* "null", "armed", or "fired" (stale handle)
  reconnectAttempts,
  connects,           \* connect() calls waiting on a fetch: <<[origin, stage]>>
  status,             \* the account status: running, wsState, lastError
  stopped,            \* history: stop() has been called
  exhausted,          \* history: a close found no attempt left, and start
                      \*          has not been called since
  failures,           \* history: reconnects scheduled since the last open
  unanswered,         \* history: pings sent since the last pong
  lastWs,             \* history: the last step of the client and what it did
  orphans,            \* live sockets ws no longer refers to, by readyState
  strayHeartbeats,    \* intervals set that heartbeatInterval no longer
                      \*   refers to
  startPromise,       \* the promise of the latest start() call
  \* ---- the deliver callback of dispatchFeishuMessage
  lastSend,           \* history: the last payload delivered and the message
                      \*          posted for it
  \* ---- fetchReplyContext as the handler calls it
  lastFetch,          \* history: the last call that settled and what it
                      \*          returned
  gateReached,        \* history: per id, the calls of buildFeishuMessageContext
                      \*          made for it since it was last inserted into
                      \*          the dedupe cache
  lastDispatch,       \* history: the last dispatchFeishuMessage call that
                      \*          settled, and how
  \* ---- the dedupe cache used the way the handler uses it
  markLog,            \* history: the ids of the latest markProcessed calls,
                      \*          cleanupThreshold + 1 of them at most
  freshOnly           \* history: every call so far was isProcessed, or
                      \*          markProcessed of an id not in the cache

dedupeVars  == <<maxSize, cleanupThreshold, processedMessages, everMarked, lost,
                 lastDedupe>>
historyVars == <<historyLimit, maxGroups, groupHistories, recOrder, recordedTo,
                 distinctOnly, lastHist>>
pipeVars    == <<handlers, passed, dispatched, recordCalls, account>>
gateVars    == <<lastGate>>
wsVars      == <<state, ws, closing, heartbeatInterval, reconnectTimeout,
                 reconnectAttempts, connects, status, stopped, exhausted,
                 failures, unanswered, lastWs, orphans, strayHeartbeats,
                 startPromise>>
renderVars  == <<lastSend>>
resolveVars == <<lastFetch, gateReached, lastDispatch>>
horizonVars == <<markLog, freshOnly>>
vars        == <<dedupeVars, historyVars, pipeVars, gateVars, wsVars, renderVars,
                 resolveVars, horizonVars>>

(***************************************************************************)
(* Sequence helpers.                                                       *)
(***************************************************************************)
Range(s) == {s[i] : i \in 1..Len(s)}

RemoveAt(s, i) == SubSeq(s, 1, i - 1) \o SubSeq(s, i + 1, Len(s))

\* the last n elements of s (all of s when it is shorter)
LastN(s, n) == IF Len(s) <= n THEN s ELSE SubSeq(s, Len(s) - n + 1, Len(s))

\* JavaScript truthiness of a string-or-undefined value: `if (value)`
Truthy(v) == v # "" /\ v # Undefined

(***************************************************************************)
(* dedupe.ts: createFeishuDedupeCache                                      *)
(***************************************************************************)
\* Set.prototype.has
SetHas(s, x) == x \in Range(s)

\* Set.prototype.add: a member keeps its position, a new value goes last
SetAdd(s, x) == IF SetHas(s, x) THEN s ELSE Append(s, x)

\* The cleanup loop of markProcessed: n iterations of one iterator over the
\* Set.  pos is the iterator's position in the live Set: deleting the value it
\* just returned leaves it pointing at the next one; a falsy value is passed
\* over undeleted; past the end the value is undefined and nothing happens.
RECURSIVE DeleteOldest(_, _, _)
DeleteOldest(s, pos, n) ==
  IF n <= 0 THEN s
  ELSE LET value == IF pos <= Len(s) THEN s[pos] ELSE Undefined IN
       IF Truthy(value)
         THEN DeleteOldest(RemoveAt(s, pos), pos, n - 1)
         ELSE DeleteOldest(s, IF pos <= Len(s) THEN pos + 1 ELSE pos, n - 1)

\* the cleanup branch written to delete one value more
AfterCleanupOneMore(s, max, threshold) ==
  IF Len(s) >= max THEN DeleteOldest(s, 1, Len(s) - threshold + 1) ELSE s

\* the Set after the cleanup branch of markProcessed
AfterCleanup(s, max, threshold) ==
  IF Len(s) >= max THEN DeleteOldest(s, 1, Len(s) - threshold) ELSE s

\* the Set after markProcessed(x)
MarkProcessedSet(s, x, max, threshold) == SetAdd(AfterCleanup(s, max, threshold), x)

\* isProcessed written as a recency-refreshing lookup (true LRU): a hit moves
\* the id to the newest position
IsProcessedRefreshing(x) ==
  /\ lastDedupe' = [op |-> "isProcessed", x |-> x, before |-> processedMessages,
                    cleaned |-> processedMessages,
                    result |-> SetHas(processedMessages, x)]
  /\ processedMessages' =
       IF SetHas(processedMessages, x)
         THEN Append(SelectSeq(processedMessages, LAMBDA v : v # x), x)
         ELSE processedMessages
  /\ UNCHANGED <<maxSize, cleanupThreshold, everMarked, lost>>

\* isProcessed(messageId)
IsProcessed(x) ==
  /\ lastDedupe' = [op |-> "isProcessed", x |-> x, before |-> processedMessages,
                    cleaned |-> processedMessages,
                    result |-> SetHas(processedMessages, x)]
  /\ UNCHANGED <<maxSize, cleanupThreshold, processedMessages, everMarked, lost>>

\* markProcessed(messageId)
MarkProcessed(x) ==
  /\ processedMessages' =
       MarkProcessedSet(processedMessages, x, maxSize, cleanupThreshold)
  /\ everMarked' = everMarked \cup {x}
  /\ lost' = (lost \cup (Range(processedMessages)
                          \ Range(AfterCleanup(processedMessages, maxSize,
                                                cleanupThreshold)))) \ {x}
  /\ lastDedupe' = [op |-> "markProcessed", x |-> x, before |-> processedMessages,
                    cleaned |-> AfterCleanup(processedMessages, maxSize, cleanupThreshold),
                    result |-> FALSE]
  /\ UNCHANGED <<maxSize, cleanupThreshold>>

\* size()
DedupeSize == Len(processedMessages)

\* clear()
DedupeClear ==
  /\ processedMessages # <<>>
  /\ processedMessages' = <<>>
  /\ lastDedupe' = [op |-> "clear", x |-> "", before |-> processedMessages,
                    cleaned |-> <<>>, result |-> FALSE]
  /\ lost' = lost \cup Range(processedMessages)
  /\ UNCHANGED <<maxSize, cleanupThreshold, everMarked>>

NoCall == [op |-> "none", x |-> "", before |-> <<>>, cleaned |-> <<>>, result |-> FALSE]

DedupeInit(max, threshold) ==
  /\ maxSize = max
  /\ cleanupThreshold = threshold
  /\ processedMessages = <<>>
  /\ everMarked = {}
  /\ lost = {}
  /\ lastDedupe = NoCall

(***************************************************************************)
(* dispatch.ts (history part): createGroupHistoryManager                   *)
(***************************************************************************)
\* entries of the record log kept per chat: the latest historyLimit ones
LogWindow == historyLimit

MapKeys(m) == {m[i].key : i \in 1..Len(m)}

\* Map.prototype.has
MapHas(m, k) == k \in MapKeys(m)

MapIndex(m, k) == CHOOSE i \in 1..Len(m) : m[i].key = k

\* Map.prototype.set: an existing key keeps its position, a new key goes last
MapSet(m, k, v) ==
  IF MapHas(m, k) THEN [m EXCEPT ![MapIndex(m, k)].val = v]
                  ELSE Append(m, [key |-> k, val |-> v])

\* Map.prototype.delete
MapDelete(m, k) == SelectSeq(m, LAMBDA p : p.key # k)

\* groupHistories.get(chatId) ?? []
MapGetOrEmpty(m, k) == IF MapHas(m, k) THEN m[MapIndex(m, k)].val ELSE <<>>

\* The eviction loop of record: n iterations of one iterator over the Map's
\* keys, deleting each truthy key it returns (see DeleteOldest).
RECURSIVE DeleteOldestKeys(_, _, _)
DeleteOldestKeys(m, pos, n) ==
  IF n <= 0 THEN m
  ELSE LET key == IF pos <= Len(m) THEN m[pos].key ELSE Undefined IN
       IF Truthy(key)
         THEN DeleteOldestKeys(RemoveAt(m, pos), pos, n - 1)
         ELSE DeleteOldestKeys(m, IF pos <= Len(m) THEN pos + 1 ELSE pos, n - 1)

\* the Map after the eviction branch of record
AfterEviction(m, maxG) ==
  IF Len(m) > maxG THEN DeleteOldestKeys(m, 1, Len(m) - maxG) ELSE m

\* the trim loop written to drop the newest entry instead of the oldest
RECURSIVE PopToLimit(_, _)
PopToLimit(h, limit) ==
  IF Len(h) > limit THEN PopToLimit(SubSeq(h, 1, Len(h) - 1), limit) ELSE h

\* while (history.length > historyLimit) history.shift()
RECURSIVE ShiftToLimit(_, _)
ShiftToLimit(h, limit) ==
  IF Len(h) > limit THEN ShiftToLimit(Tail(h), limit) ELSE h

\* the Map after record(chatId, entry)
RecordMap(m, chatId, entry, limit, maxG) ==
  LET evicted == AfterEviction(m, maxG)
      created == IF MapHas(evicted, chatId) THEN evicted
                 ELSE MapSet(evicted, chatId, <<>>)
      history == ShiftToLimit(Append(MapGetOrEmpty(created, chatId), entry), limit)
      pushed  == MapSet(created, chatId, history)
  IN  IF MapHas(pushed, chatId)
        THEN MapSet(MapDelete(pushed, chatId), chatId, history)
        ELSE pushed

\* clear written as a reset of the whole Map
ClearMapAll(m, chatId) == <<>>

\* the Map after clear(chatId)
ClearMap(m, chatId) == MapSet(m, chatId, <<>>)

\* groupCount()
GroupCount == Len(groupHistories)

\* the keys the eviction branch of a record call on m removes
EvictedKeys(m, maxG) == MapKeys(m) \ MapKeys(AfterEviction(m, maxG))

\* record(chatId, entry)
HistRecord(chatId, entry) ==
  LET gone == EvictedKeys(groupHistories, maxGroups) IN
  /\ groupHistories' = RecordMap(groupHistories, chatId, entry, historyLimit, maxGroups)
  /\ recordedTo' =
       [c \in ChatIds |->
          IF c = chatId
            THEN LastN(Append(IF c \in gone THEN <<>> ELSE recordedTo[c], entry),
                       LogWindow)
            ELSE IF c \in gone THEN <<>> ELSE recordedTo[c]]
  /\ lastHist' = [op |-> "record", chatId |-> chatId, evicted |-> gone,
                  dropped |-> (chatId \notin gone
                               /\ Len(recordedTo[chatId]) >= LogWindow),
                  result |-> <<>>]
  /\ UNCHANGED <<historyLimit, maxGroups>>

\* the order of the chats by their last record call, kept beside a record call
OrderAfterRecord(chatId) ==
  /\ recOrder' = Append(SelectSeq(recOrder, LAMBDA c : c # chatId), chatId)
  /\ distinctOnly' = (distinctOnly /\ chatId \notin Range(recOrder))

\* the same beside a call that is not a record call
OrderAfterOther(isGet) ==
  /\ recOrder' = recOrder
  /\ distinctOnly' = (distinctOnly /\ isGet)

orderVars == <<recOrder, distinctOnly>>

\* get written as get-or-create: an unknown chat starts being tracked
HistGetTracking(chatId) ==
  /\ groupHistories' = IF MapHas(groupHistories, chatId) THEN groupHistories
                       ELSE MapSet(groupHistories, chatId, <<>>)
  /\ lastHist' = [op |-> "get", chatId |-> chatId, evicted |-> {},
                  dropped |-> FALSE, result |-> MapGetOrEmpty(groupHistories, chatId)]
  /\ UNCHANGED <<historyLimit, maxGroups, recordedTo>>

\* get(chatId)
HistGet(chatId) ==
  /\ lastHist' = [op |-> "get", chatId |-> chatId, evicted |-> {},
                  dropped |-> FALSE, result |-> MapGetOrEmpty(groupHistories, chatId)]
  /\ UNCHANGED <<historyLimit, maxGroups, groupHistories, recordedTo>>

\* clear written as groupHistories.delete(chatId): the chat stops being tracked
HistClearDeleting(chatId) ==
  /\ groupHistories' = MapDelete(groupHistories, chatId)
  /\ recordedTo' = [recordedTo EXCEPT ![chatId] = <<>>]
  /\ lastHist' = [op |-> "clear", chatId |-> chatId, evicted |-> {},
                  dropped |-> FALSE, result |-> <<>>]
  /\ UNCHANGED <<historyLimit, maxGroups>>

\* clear(chatId)
HistClear(chatId) ==
  /\ groupHistories' = ClearMap(groupHistories, chatId)
  /\ recordedTo' = [recordedTo EXCEPT ![chatId] = <<>>]
  /\ lastHist' = [op |-> "clear", chatId |-> chatId, evicted |-> {},
                  dropped |-> FALSE, result |-> <<>>]
  /\ UNCHANGED <<historyLimit, maxGroups>>

\* clearAll()
HistClearAll ==
  /\ groupHistories # <<>>
  /\ groupHistories' = <<>>
  /\ recordedTo' = [c \in ChatIds |-> <<>>]
  /\ lastHist' = [op |-> "clearAll", chatId |-> "", evicted |-> {},
                  dropped |-> FALSE, result |-> <<>>]
  /\ UNCHANGED <<historyLimit, maxGroups>>

NoHistCall == [op |-> "none", chatId |-> "", evicted |-> {}, dropped |-> FALSE,
               result |-> <<>>]

HistoryInit(limit, maxG) ==
  /\ historyLimit = limit
  /\ maxGroups = maxG
  /\ groupHistories = <<>>
  /\ recOrder = <<>>
  /\ recordedTo = [c \in ChatIds |-> <<>>]
  /\ distinctOnly = TRUE
  /\ lastHist = NoHistCall

\* the components a specification does not exercise stay as constructed
DedupeIdle == DedupeInit(MaxSizeBound, MaxSizeBound - 1)

HistoryIdle == HistoryInit(MaxHistoryLimit, MaxGroupsBound)

(***************************************************************************)
(* Message context (buildFeishuMessageContext): the access decision.       *)
(***************************************************************************)
\* String.prototype.toLowerCase on the names that occur in the model
ToLowerCase(name) ==
  CASE name = "Bot" -> "bot"
    [] OTHER        -> name

\* String.prototype.trim on the names that occur in the model
Trim(name) ==
  CASE name = " bot " -> "bot"
    [] OTHER          -> name

\* normalizeMentionName: name.trim().toLowerCase()
NormalizeMentionName(name) == ToLowerCase(Trim(name))

\* the names n for which the lower-cased display text contains "@" + n: the
\* parser writes "@" + name in place of every mention key, and the sender may
\* have typed "@bot" without picking the bot from the mention list
AtNames(mentions, typedAtBot) ==
  {ToLowerCase(m.name) : m \in mentions} \cup (IF typedAtBot THEN {"bot"} ELSE {})

\* isBotMentioned(message, botOpenId, botName) of the context module, the one
\* buildFeishuMessageContext calls.  message.atNames stands for the display
\* text (see AtNames).
IsBotMentioned(message, botOpenId, botName) ==
  IF message.mentions = {} THEN FALSE
  ELSE IF Truthy(botOpenId) /\ \E m \in message.mentions : m.id = botOpenId THEN TRUE
  ELSE IF Truthy(botName)
    THEN \/ \E m \in message.mentions :
              Truthy(m.name) /\ NormalizeMentionName(m.name) = NormalizeMentionName(botName)
         \/ NormalizeMentionName(botName) \in message.atNames
    ELSE FALSE

\* the exported isBotMentioned of the webhook module: exact name, and @_all
IsBotMentionedWebhook(message, botOpenId, botName) ==
  IF message.mentions = {} THEN FALSE
  ELSE \E m \in message.mentions :
         \/ Truthy(botOpenId) /\ m.id = botOpenId
         \/ Truthy(botName) /\ m.name = botName
         \/ m.key = "@_all"

\* message.senderOpenId ?? message.senderId
GateSenderId(message) ==
  IF message.senderOpenId # Undefined THEN message.senderOpenId ELSE message.senderId

\* the DM policy check written without the allowFrom.length === 0 case
DmAllowedListedOnly(message, acct) ==
  IF acct.dmPolicy = "disabled" THEN FALSE
  ELSE IF acct.dmPolicy # "open"
    THEN LET allowed == GateSenderId(message) \in acct.allowFrom
         IN  ~(~allowed /\ acct.dmPolicy = "allowlist")
    ELSE TRUE

\* the DM policy check of buildFeishuMessageContext: FALSE when it returns null
DmAllowed(message, acct) ==
  IF acct.dmPolicy = "disabled" THEN FALSE
  ELSE IF acct.dmPolicy # "open"
    THEN LET allowed == acct.allowFrom = {} \/ GateSenderId(message) \in acct.allowFrom
         IN  ~(~allowed /\ acct.dmPolicy = "allowlist")
    ELSE TRUE

\* the group check written without the canIdentifyBot escape
GroupAllowedStrict(message, acct) ==
  IF acct.groupPolicy = "disabled" THEN FALSE
  ELSE LET wasMentioned == IsBotMentioned(message, acct.botOpenId, acct.botName)
       IN  ~(acct.requireMention /\ ~wasMentioned)

\* the group policy and mention gating of buildFeishuMessageContext: FALSE
\* when it returns null.  acct.groups is not read.
GroupAllowed(message, acct) ==
  IF acct.groupPolicy = "disabled" THEN FALSE
  ELSE LET wasMentioned   == IsBotMentioned(message, acct.botOpenId, acct.botName)
           canIdentifyBot == Truthy(acct.botOpenId) \/ Truthy(acct.botName)
       IN  ~(acct.requireMention /\ ~wasMentioned /\ canIdentifyBot)

\* the checks written without the two early returns on a disabled policy
ContextAllowedNoDisabled(message, acct) ==
  IF message.chatType # "group"
    THEN DmAllowed(message, [acct EXCEPT !.dmPolicy =
                               IF @ = "disabled" THEN "pairing" ELSE @])
    ELSE GroupAllowed(message, [acct EXCEPT !.groupPolicy =
                                  IF @ = "disabled" THEN "open" ELSE @])

\* TRUE when buildFeishuMessageContext returns a context, FALSE when it
\* returns null (DM policy check and group mention gating)
ContextAllowed(message, acct) ==
  IF message.chatType # "group" THEN DmAllowed(message, acct)
                                ELSE GroupAllowed(message, acct)

\* ctxPayload with every chat reported as a group
CtxPayloadAllGroup(message, acct) ==
  [MessageSid |-> message.messageId, ChatType |-> "group",
   WasMentioned |-> IsBotMentioned(message, acct.botOpenId, Undefined)]

\* the fields of ctxPayload that identify the message and its chat
CtxPayload(message, acct) ==
  [MessageSid |-> message.messageId,
   ChatType |-> IF message.chatType = "group" THEN "group" ELSE "direct",
   WasMentioned |-> IF message.chatType = "group"
                      THEN IsBotMentioned(message, acct.botOpenId, Undefined)
                      ELSE Undefined]

\* the result of buildFeishuMessageContext when it returns null
NoContext == [MessageSid |-> Undefined, ChatType |-> Undefined,
              WasMentioned |-> Undefined]

NoGateCall == [op |-> "none"]

\* buildFeishuMessageContext called with one message: its decision and the
\* payload it returns
BuildContext(message) ==
  /\ lastGate' = [op |-> "build", message |-> message,
                  allowed |-> ContextAllowed(message, account),
                  mentioned |-> IsBotMentioned(message, account.botOpenId,
                                               account.botName),
                  ctxPayload |-> IF ContextAllowed(message, account)
                                   THEN CtxPayload(message, account)
                                   ELSE NoContext]
  /\ UNCHANGED <<dedupeVars, historyVars, pipeVars, wsVars, renderVars, resolveVars, horizonVars>>

\* the webhook module's isBotMentioned called with one message
WebhookMentionCheck(message) ==
  /\ lastGate' = [op |-> "webhookMention", message |-> message,
                  allowed |-> FALSE,
                  mentioned |-> IsBotMentionedWebhook(message, account.botOpenId,
                                                      account.botName)]
  /\ UNCHANGED <<dedupeVars, historyVars, pipeVars, wsVars, renderVars, resolveVars, horizonVars>>

(***************************************************************************)
(* Reply rendering: the deliver callback of dispatchFeishuMessage, the     *)
(* default reply and media senders, and shouldUseCardRendering, sendSmart  *)
(* and replyMessage of api.ts.                                             *)
(*                                                                         *)
(* A text is a sequence of characters (head) followed by a run of tail     *)
(* letters "a".  Every pattern below ends in a character that is not a     *)
(* letter, so a match never reaches into the run; only text.length sees it.*)
(***************************************************************************)
\* text.length above which a text is rendered as a card
longTextLength == 500
\* number of matches of /\n\n/g from which a text is rendered as a card
paragraphMatches == 3

LineTerminators == {"\n", "\r"}

TextLength(text) == Len(text.head) + text.tail

\* the character U+0060 (grave accent), spelled out
Grave == "GRAVE"

\* a fence of three grave accents starts at s[i]
IsFenceAt(s, i) ==
  i + 2 <= Len(s) /\ s[i] = Grave /\ s[i + 1] = Grave /\ s[i + 2] = Grave

\* /FENCE[\s\S]*?FENCE/.test(s), FENCE being three grave accents
TestCodeBlock(s) ==
  \E i \in 1..Len(s) : IsFenceAt(s, i) /\ \E j \in (i + 3)..Len(s) : IsFenceAt(s, j)

\* /\|.+\|[\r\n]+\|[-:| ]+\|/.test(s)
TestTable(s) ==
  \E i \in 1..Len(s) : \E j \in (i + 2)..Len(s) :
    \E k \in (j + 2)..Len(s) : \E m \in (k + 2)..Len(s) :
      /\ s[i] = "|" /\ s[j] = "|" /\ s[k] = "|" /\ s[m] = "|"
      /\ \A p \in (i + 1)..(j - 1) : s[p] \notin LineTerminators
      /\ \A p \in (j + 1)..(k - 1) : s[p] \in LineTerminators
      /\ \A p \in (k + 1)..(m - 1) : s[p] \in {"-", ":", "|", " "}

\* /\[.+\]\(.+\)/.test(s)
TestLink(s) ==
  \E i \in 1..Len(s) : \E j \in (i + 2)..Len(s) : \E m \in (j + 3)..Len(s) :
    /\ s[i] = "[" /\ s[j] = "]" /\ s[j + 1] = "(" /\ s[m] = ")"
    /\ \A p \in (i + 1)..(j - 1) : s[p] \notin LineTerminators
    /\ \A p \in (j + 2)..(m - 1) : s[p] \notin LineTerminators

\* (s.match(/\n\n/g) || []).length: matches are taken left to right and do
\* not overlap
RECURSIVE BlankLineMatches(_, _)
BlankLineMatches(s, i) ==
  IF i + 1 > Len(s) THEN 0
  ELSE IF s[i] = "\n" /\ s[i + 1] = "\n" THEN 1 + BlankLineMatches(s, i + 2)
  ELSE BlankLineMatches(s, i + 1)

shouldUseCardRendering(text) ==
  IF TestCodeBlock(text.head) THEN TRUE
  ELSE IF TestTable(text.head) THEN TRUE
  ELSE IF TestLink(text.head) THEN TRUE
  ELSE IF TextLength(text) > longTextLength THEN TRUE
  ELSE IF BlankLineMatches(text.head, 1) >= paragraphMatches THEN TRUE
  ELSE FALSE

\* s.replace(/\|/g, " | ")
RECURSIVE PadPipes(_)
PadPipes(s) ==
  IF s = <<>> THEN <<>>
  ELSE (IF Head(s) = "|" THEN <<" ", "|", " ">> ELSE <<Head(s)>>) \o PadPipes(Tail(s))

\* length of the longest run of characters of set that starts at s[i]
RECURSIVE RunLength(_, _, _)
RunLength(s, i, set) ==
  IF i > Len(s) \/ s[i] \notin set THEN 0 ELSE 1 + RunLength(s, i + 1, set)

\* s.replace(/[-:]+\|[-:| ]+/g, (match) => match.replace(/[:|]/g, "-"))
RECURSIVE DashSeparators(_, _)
DashSeparators(s, i) ==
  IF i > Len(s) THEN <<>>
  ELSE
    LET a == RunLength(s, i, {"-", ":"})
        b == IF a > 0 /\ i + a <= Len(s) /\ s[i + a] = "|"
             THEN RunLength(s, i + a + 1, {"-", ":", "|", " "}) ELSE 0
        n == a + 1 + b
    IN IF b > 0
       THEN [p \in 1..n |-> IF s[i + p - 1] \in {":", "|"} THEN "-" ELSE s[i + p - 1]]
            \o DashSeparators(s, i + n)
       ELSE <<s[i]>> \o DashSeparators(s, i + 1)

markdownTableToAscii(text) ==
  [head |-> DashSeparators(PadPipes(text.head), 1), tail |-> text.tail]

\* options.renderMode ?? account.renderMode ?? "auto"
ResolveRenderMode(optionMode, accountMode) ==
  IF optionMode # Undefined THEN optionMode
  ELSE IF accountMode # Undefined THEN accountMode
  ELSE "auto"

\* the message sendSmart posts
sendSmart(accountMode, text, optionMode) ==
  LET renderMode == ResolveRenderMode(optionMode, accountMode)
      useCard == CASE renderMode = "card" -> TRUE
                   [] renderMode = "raw" -> FALSE
                   [] OTHER -> shouldUseCardRendering(text)
      processedText == IF renderMode = "raw" THEN markdownTableToAscii(text) ELSE text
  IN IF useCard
     THEN [api |-> "sendSmart", msgType |-> "interactive", content |-> text]
     ELSE [api |-> "sendSmart", msgType |-> "text", content |-> processedText]

\* the message replyMessage posts
replyMessage(accountMode, text, optionMode) ==
  LET renderMode == ResolveRenderMode(optionMode, accountMode)
      useCard == renderMode = "card"
                 \/ (renderMode = "auto" /\ shouldUseCardRendering(text))
  IN [api |-> "replyMessage",
      msgType |-> IF useCard THEN "interactive" ELSE "text",
      content |-> text]

\* the sender createDefaultReplySender returns; in a group replyToId is the
\* id of the message answered
DefaultReplySender(accountMode, isGroup, text, replyToId, renderMode) ==
  IF Truthy(replyToId) /\ isGroup
  THEN replyMessage(accountMode, text, renderMode)
  ELSE sendSmart(accountMode, text, renderMode)

\* the sender createDefaultMediaSender returns: the URL is sent as text
DefaultMediaSender(accountMode, isGroup, text, mediaUrl, replyToId) ==
  LET body == IF TextLength(text) > 0
              THEN [head |-> text.head \o <<"\n", "\n">> \o mediaUrl.head,
                    tail |-> mediaUrl.tail]
              ELSE mediaUrl
  IN IF Truthy(replyToId) /\ isGroup
     THEN replyMessage(accountMode, body, Undefined)
     ELSE sendSmart(accountMode, body, Undefined)

\* the blocks of characters the explored texts are made of
Chunks == { <<Grave, Grave, Grave>>, <<"a">>, <<"\n">>, <<"\n", "\n">>,
            <<"|", "a", "|">>, <<"|", "-", "|">>,
            <<"[", "a", "]">>, <<"(", "a", ")">> }

RECURSIVE Flatten(_)
Flatten(chunks) ==
  IF chunks = <<>> THEN <<>> ELSE Head(chunks) \o Flatten(Tail(chunks))

Heads == {Flatten(cs) : cs \in UNION {[1..n -> Chunks] : n \in 0..MaxChunks}}

\* no run, or a run that brings the length next to longTextLength
Tails == {0, longTextLength - MaxChunks}

Texts == [head : Heads, tail : Tails]

\* payload.mediaUrl: absent (falsy, as the empty string is) or a URL
NoMediaUrl == [head |-> <<>>, tail |-> 0]

MediaUrls == {NoMediaUrl, [head |-> <<"a">>, tail |-> 0]}

RenderModes == {"auto", "raw", "card"}

NoSend == [op |-> "none"]

RenderInit == lastSend = NoSend

\* one call of the deliver callback the reply dispatcher is given, with the
\* senders the gateway passes to dispatchFeishuMessage
DeliverPayload(text, mediaUrl, accountMode, isGroup) ==
  LET replyToId == IF isGroup THEN "m1" ELSE Undefined
      call == [text |-> text, mediaUrl |-> mediaUrl, mode |-> accountMode,
               isGroup |-> isGroup]
  IN /\ IF TextLength(mediaUrl) > 0
        THEN /\ text.tail = 0
             /\ lastSend' = call @@ [op |-> "media", renderMode |-> Undefined]
                  @@ DefaultMediaSender(accountMode, isGroup, text, mediaUrl, replyToId)
        ELSE IF TextLength(text) > 0
        THEN LET renderMode == IF shouldUseCardRendering(text) THEN "card"
                               ELSE accountMode
             IN lastSend' = call @@ [op |-> "reply", renderMode |-> renderMode,
                                     classified |-> shouldUseCardRendering(text)]
                  @@ DefaultReplySender(accountMode, isGroup, text, replyToId, renderMode)
        ELSE lastSend' = call @@ [op |-> "nothing"]

(***************************************************************************)
(* The native WebSocket client (createNativeWSClient) with the gateway's   *)
(* onStateChange handler.  Each action is one callback or one run of an    *)
(* async function between two awaits.                                      *)
(***************************************************************************)
maxReconnectAttempts == 10

baseReconnectDelay == 1000

\* what onStateChange writes for a sequence of setState calls
StatusAfter(st, newState) ==
  [st EXCEPT !.wsState = newState,
             !.running = (newState = "connected" \/ newState = "reconnecting")]

\* the state changes the handler observes for a sequence of setState calls
RECURSIVE Observed(_, _)
Observed(from, states) ==
  IF states = <<>> THEN <<>>
  ELSE <<<<from, Head(states)>>>> \o Observed(Head(states), Tail(states))

NoWsStep == [op |-> "none", kind |-> "none", handled |-> FALSE, after |-> "none",
             trans |-> <<>>, delay |-> 0, scheduled |-> FALSE]

\* no socket is live besides the one ws refers to
NoOrphans == [CONNECTING |-> 0, OPEN |-> 0]

\* the states of the promise start() returns: no call yet; connect() awaits
\* a fetch; the socket was created and resolve waits for its open event
\* ("openingOrphan": ws refers to a later socket by now); settled; or
\* "lost": the socket was closed before it opened, and neither resolve nor
\* reject is referenced by any callback that can still run
PendingPromise == {"fetching", "opening", "openingOrphan", "lost"}
SettledPromise == {"resolved", "rejected"}

\* what becomes of the start promise when the socket ws refers to is closed
\* or its close event arrives
PromiseAfterClose ==
  IF startPromise = "opening" /\ ws # "null" THEN "lost" ELSE startPromise

SupervisorInit ==
  /\ state = "disconnected"
  /\ ws = "null"
  /\ closing = 0
  /\ heartbeatInterval = FALSE
  /\ reconnectTimeout = "null"
  /\ reconnectAttempts = 0
  /\ connects = <<>>
  /\ status = [running |-> TRUE, wsState |-> Undefined, lastError |-> Undefined]
  /\ stopped = FALSE
  /\ exhausted = FALSE
  /\ failures = 0
  /\ unanswered = 0
  /\ lastWs = NoWsStep
  /\ orphans = NoOrphans
  /\ strayHeartbeats = 0
  /\ startPromise = "none"

\* cleanup(): the heartbeat cleared, the socket closed and forgotten (the
\* caller states what becomes of reconnectTimeout, which cleanup clears).
\* selfClosed: the call is made by the close event of the socket ws refers to,
\* whose close() has no effect.
CleanupEffect(selfClosed) ==
  /\ heartbeatInterval' = FALSE
  /\ closing' = IF ws # "null" /\ ~selfClosed THEN closing + 1 ELSE closing
  /\ ws' = "null"
  /\ startPromise' = PromiseAfterClose

\* connect() up to its first await: setState("connecting"), the token fetch
\* is sent
ConnectCalled(origin, op) ==
  /\ state' = "connecting"
  /\ status' = StatusAfter(status, "connecting")
  /\ connects' = Append(connects, [origin |-> origin, stage |-> "token"])
  /\ lastWs' = [NoWsStep EXCEPT !.op = op,
                                !.trans = Observed(state, <<"connecting">>)]

\* client.start(), called on a client that is disconnected, idle and not
\* stopped
Start ==
  /\ state = "disconnected"
  /\ ~stopped
  /\ connects = <<>>
  /\ ws = "null"
  /\ reconnectTimeout # "armed"
  /\ ConnectCalled("start", "start")
  /\ exhausted' = FALSE
  /\ startPromise' = "fetching"
  /\ UNCHANGED <<ws, closing, heartbeatInterval, reconnectTimeout,
                 reconnectAttempts, stopped, failures, unanswered, orphans,
                 strayHeartbeats>>

\* the reconnect timer fires: connect().catch(onError)
ReconnectTimerFires ==
  /\ reconnectTimeout = "armed"
  /\ reconnectTimeout' = "fired"
  /\ ConnectCalled("retry", "timer")
  /\ UNCHANGED <<ws, closing, heartbeatInterval, reconnectAttempts, stopped,
                 exhausted, failures, unanswered, orphans, strayHeartbeats,
                 startPromise>>

\* a connect() whose awaited fetch settles.  outcome "ok": the token, then
\* the socket URL, was obtained and at the second the socket is created;
\* "fail": the fetch rejected or the answer lacks the token or URL, connect
\* throws; "socketThrows": new WebSocket threw.  A throw of the connect that
\* start awaits reaches the gateway's catch; one of a retry reaches onError,
\* which logs.
ConnectSettles(i, outcome) ==
  /\ i \in 1..Len(connects)
  /\ outcome = "socketThrows" => connects[i].stage = "ticket"
  /\ LET c == connects[i]
         thrown == outcome # "ok"
         gatewayCatch(st) ==
           IF thrown /\ c.origin = "start"
             THEN [st EXCEPT !.running = FALSE, !.lastError = "WebSocket: error"]
             ELSE st
     IN  /\ connects' = IF outcome = "ok" /\ c.stage = "token"
                          THEN [connects EXCEPT ![i].stage = "ticket"]
                          ELSE RemoveAt(connects, i)
         /\ ws' = IF outcome = "ok" /\ c.stage = "ticket" THEN "CONNECTING" ELSE ws
         /\ orphans' = IF outcome = "ok" /\ c.stage = "ticket" /\ ws # "null"
                         THEN [orphans EXCEPT ![ws] = @ + 1]
                         ELSE orphans
         /\ startPromise' =
              IF c.origin = "start"
                THEN IF thrown THEN "rejected"
                     ELSE IF c.stage = "ticket" THEN "opening" ELSE startPromise
                ELSE IF outcome = "ok" /\ c.stage = "ticket" /\ ws # "null"
                        /\ startPromise = "opening"
                       THEN "openingOrphan"
                       ELSE startPromise
         /\ state' = IF outcome = "socketThrows" THEN "disconnected" ELSE state
         /\ status' = gatewayCatch(IF outcome = "socketThrows"
                                     THEN StatusAfter(status, "disconnected")
                                     ELSE status)
         /\ lastWs' = [NoWsStep EXCEPT
                         !.op = "connect", !.kind = outcome, !.after = c.stage,
                         !.trans = IF outcome = "socketThrows"
                                     THEN Observed(state, <<"disconnected">>)
                                     ELSE <<>>]
  /\ UNCHANGED <<closing, heartbeatInterval, reconnectTimeout, reconnectAttempts,
                 stopped, exhausted, failures, unanswered, strayHeartbeats>>

\* ws.onopen written without the reset of reconnectAttempts
SocketOpenNoReset ==
  /\ ws = "CONNECTING"
  /\ ws' = "OPEN"
  /\ state' = "connected"
  /\ status' = StatusAfter(status, "connected")
  /\ heartbeatInterval' = TRUE
  /\ failures' = 0
  /\ unanswered' = 0
  /\ lastWs' = [NoWsStep EXCEPT !.op = "open",
                                !.trans = Observed(state, <<"connected">>)]
  /\ strayHeartbeats' = IF heartbeatInterval /\ strayHeartbeats < MaxStray
                          THEN strayHeartbeats + 1 ELSE strayHeartbeats
  /\ startPromise' = IF startPromise = "opening" THEN "resolved" ELSE startPromise
  /\ UNCHANGED <<closing, reconnectTimeout, reconnectAttempts, connects, stopped,
                 exhausted, orphans>>

\* ws.onopen
SocketOpen ==
  /\ ws = "CONNECTING"
  /\ ws' = "OPEN"
  /\ state' = "connected"
  /\ status' = StatusAfter(status, "connected")
  /\ reconnectAttempts' = 0
  /\ heartbeatInterval' = TRUE
  /\ failures' = 0
  /\ unanswered' = 0
  /\ lastWs' = [NoWsStep EXCEPT !.op = "open",
                                !.trans = Observed(state, <<"connected">>)]
  /\ strayHeartbeats' = IF heartbeatInterval /\ strayHeartbeats < MaxStray
                          THEN strayHeartbeats + 1 ELSE strayHeartbeats
  /\ startPromise' = IF startPromise = "opening" THEN "resolved" ELSE startPromise
  /\ UNCHANGED <<closing, reconnectTimeout, connects, stopped, exhausted, orphans>>

\* the body of ws.onclose written with <= in the test for attempts left
CloseEffectOneMore(op) ==
  LET retry == reconnectAttempts <= maxReconnectAttempts
      delay == baseReconnectDelay * 2 ^ reconnectAttempts
  IN  /\ state' = IF retry THEN "reconnecting" ELSE "disconnected"
      /\ status' = IF retry
                     THEN StatusAfter(StatusAfter(status, "disconnected"), "reconnecting")
                     ELSE StatusAfter(status, "disconnected")
      /\ reconnectAttempts' = IF retry THEN reconnectAttempts + 1 ELSE reconnectAttempts
      /\ reconnectTimeout' = IF retry THEN "armed" ELSE "null"
      /\ failures' = IF retry THEN failures + 1 ELSE failures
      /\ exhausted' = (exhausted \/ (~stopped /\ reconnectAttempts >= maxReconnectAttempts))
      /\ lastWs' = [NoWsStep EXCEPT
                      !.op = op,
                      !.kind = IF retry THEN "retry" ELSE "giveUp",
                      !.trans = Observed(state, IF retry
                                                  THEN <<"disconnected", "reconnecting">>
                                                  ELSE <<"disconnected">>),
                      !.delay = IF retry THEN delay ELSE 0,
                      !.scheduled = retry]

\* the body of ws.onclose after cleanup(): setState("disconnected") and, with
\* attempts left, setState("reconnecting") and the timer
CloseEffect(op) ==
  LET retry == reconnectAttempts < maxReconnectAttempts
      delay == baseReconnectDelay * 2 ^ reconnectAttempts
  IN  /\ state' = IF retry THEN "reconnecting" ELSE "disconnected"
      /\ status' = IF retry
                     THEN StatusAfter(StatusAfter(status, "disconnected"), "reconnecting")
                     ELSE StatusAfter(status, "disconnected")
      /\ reconnectAttempts' = IF retry THEN reconnectAttempts + 1 ELSE reconnectAttempts
      /\ reconnectTimeout' = IF retry THEN "armed" ELSE "null"
      /\ failures' = IF retry THEN failures + 1 ELSE failures
      /\ exhausted' = (exhausted \/ (~retry /\ ~stopped))
      /\ lastWs' = [NoWsStep EXCEPT
                      !.op = op,
                      !.kind = IF retry THEN "retry" ELSE "giveUp",
                      !.trans = Observed(state, IF retry
                                                  THEN <<"disconnected", "reconnecting">>
                                                  ELSE <<"disconnected">>),
                      !.delay = IF retry THEN delay ELSE 0,
                      !.scheduled = retry]

\* ws.onclose of the socket ws refers to: the connection attempt failed or
\* the open connection dropped
SocketClose ==
  /\ ws \in {"CONNECTING", "OPEN"}
  /\ CleanupEffect(TRUE)
  /\ CloseEffect("close")
  /\ UNCHANGED <<connects, stopped, unanswered, orphans, strayHeartbeats>>

\* ws.onclose of a socket that cleanup() closed earlier
ClosedSocketClose ==
  /\ closing > 0
  /\ heartbeatInterval' = FALSE
  /\ closing' = IF ws # "null" THEN closing ELSE closing - 1
  /\ ws' = "null"
  /\ startPromise' = PromiseAfterClose
  /\ CloseEffect("lateClose")
  /\ UNCHANGED <<connects, stopped, unanswered, orphans, strayHeartbeats>>

\* the heartbeat interval fires: a ping is sent on an open socket
HeartbeatTick ==
  /\ heartbeatInterval \/ strayHeartbeats > 0
  /\ unanswered' = IF ws = "OPEN" /\ unanswered < MaxUnanswered
                     THEN unanswered + 1 ELSE unanswered
  /\ lastWs' = [NoWsStep EXCEPT !.op = "heartbeat",
                                !.handled = (ws = "OPEN")]
  /\ UNCHANGED <<state, ws, closing, heartbeatInterval, reconnectTimeout,
                 reconnectAttempts, connects, status, stopped, exhausted, failures,
                 orphans, strayHeartbeats, startPromise>>

\* frames a socket can deliver: a pong, text that is not JSON, a message
\* event whose handler resolves, one whose handler rejects, any other frame
FrameKinds == {"pong", "undecodable", "message", "messageThrows", "other"}

\* ws.onmessage written with a close of the socket in its catch
FrameReceivedClosing(kind) ==
  /\ ws = "OPEN"
  /\ unanswered' = IF kind = "pong" THEN 0 ELSE unanswered
  /\ lastWs' = [NoWsStep EXCEPT
                  !.op = "frame", !.kind = kind,
                  !.handled = (kind \in {"message", "messageThrows"}),
                  !.after = IF lastWs.op = "frame" THEN lastWs.kind ELSE "none"]
  /\ ws' = IF kind = "undecodable" THEN "null" ELSE ws
  /\ closing' = IF kind = "undecodable" THEN closing + 1 ELSE closing
  /\ UNCHANGED <<state, heartbeatInterval, reconnectTimeout,
                 reconnectAttempts, connects, status, stopped, exhausted, failures,
                 orphans, strayHeartbeats, startPromise>>

\* ws.onmessage
FrameReceived(kind) ==
  /\ ws = "OPEN"
  /\ unanswered' = IF kind = "pong" THEN 0 ELSE unanswered
  /\ lastWs' = [NoWsStep EXCEPT
                  !.op = "frame", !.kind = kind,
                  !.handled = (kind \in {"message", "messageThrows"}),
                  !.after = IF lastWs.op = "frame" THEN lastWs.kind ELSE "none"]
  /\ UNCHANGED <<state, ws, closing, heartbeatInterval, reconnectTimeout,
                 reconnectAttempts, connects, status, stopped, exhausted, failures,
                 orphans, strayHeartbeats, startPromise>>

\* stop written without the cleanup() call
StopKeepingTimers ==
  /\ reconnectAttempts' = maxReconnectAttempts
  /\ state' = "disconnected"
  /\ status' = StatusAfter(status, "disconnected")
  /\ stopped' = TRUE
  /\ lastWs' = [NoWsStep EXCEPT
                  !.op = "stop",
                  !.kind = IF lastWs.op = "stop" THEN lastWs.kind ELSE reconnectTimeout,
                  !.after = lastWs.op,
                  !.trans = Observed(state, <<"disconnected">>)]
  /\ UNCHANGED <<ws, closing, heartbeatInterval, reconnectTimeout, connects,
                 exhausted, failures, unanswered, orphans, strayHeartbeats,
                 startPromise>>

\* client.stop(), followed by the status the gateway's abort listener writes
Stop ==
  /\ reconnectAttempts' = maxReconnectAttempts
  /\ CleanupEffect(FALSE)
  /\ reconnectTimeout' = "null"
  /\ state' = "disconnected"
  /\ status' = StatusAfter(status, "disconnected")
  /\ stopped' = TRUE
  /\ lastWs' = [NoWsStep EXCEPT
                  !.op = "stop",
                  !.kind = IF lastWs.op = "stop" THEN lastWs.kind ELSE reconnectTimeout,
                  !.after = lastWs.op,
                  !.trans = Observed(state, <<"disconnected">>)]
  /\ UNCHANGED <<connects, exhausted, failures, unanswered, orphans,
                 strayHeartbeats>>

\* client.start() called on a client that is connecting, connected or
\* waiting to reconnect: start() is connect() without a test of the state
StartAgain ==
  /\ ~stopped
  /\ ~(state = "disconnected" /\ connects = <<>> /\ ws = "null"
        /\ reconnectTimeout # "armed")
  /\ Len(connects) + closing + orphans.CONNECTING + orphans.OPEN + strayHeartbeats
       < MaxStray
  /\ ConnectCalled("start", "startAgain")
  /\ exhausted' = FALSE
  /\ startPromise' = "fetching"
  /\ UNCHANGED <<ws, closing, heartbeatInterval, reconnectTimeout,
                 reconnectAttempts, stopped, failures, unanswered, orphans,
                 strayHeartbeats>>

\* ws.onopen of a socket ws no longer refers to: the handler works on the
\* client's variables, whichever socket it was set on
OrphanOpen ==
  /\ orphans.CONNECTING > 0
  /\ orphans' = [orphans EXCEPT !.CONNECTING = @ - 1, !.OPEN = @ + 1]
  /\ state' = "connected"
  /\ status' = StatusAfter(status, "connected")
  /\ reconnectAttempts' = 0
  /\ heartbeatInterval' = TRUE
  /\ strayHeartbeats' = IF heartbeatInterval /\ strayHeartbeats < MaxStray
                          THEN strayHeartbeats + 1 ELSE strayHeartbeats
  /\ startPromise' = IF startPromise = "openingOrphan" THEN "resolved"
                                                       ELSE startPromise
  /\ failures' = 0
  /\ unanswered' = 0
  /\ lastWs' = [NoWsStep EXCEPT !.op = "orphanOpen",
                                !.trans = Observed(state, <<"connected">>)]
  /\ UNCHANGED <<ws, closing, reconnectTimeout, connects, stopped, exhausted>>

\* ws.onclose of a socket ws no longer refers to: cleanup() closes the socket
\* ws refers to now
OrphanClose ==
  /\ \E readyState \in {"CONNECTING", "OPEN"} :
       /\ orphans[readyState] > 0
       /\ orphans' = [orphans EXCEPT ![readyState] = @ - 1]
  /\ heartbeatInterval' = FALSE
  /\ closing' = IF ws # "null" THEN closing + 1 ELSE closing
  /\ ws' = "null"
  /\ startPromise' = IF startPromise = "openingOrphan" THEN "lost"
                                                       ELSE PromiseAfterClose
  /\ CloseEffect("orphanClose")
  /\ UNCHANGED <<connects, stopped, unanswered, strayHeartbeats>>

(***************************************************************************)
(* Channel gateway: handleInboundMessage, one handler per delivery.  A      *)
(* handler runs without interruption between two awaits; each action below *)
(* is one such run.                                                        *)
(***************************************************************************)
\* the payloads the transport delivers; a re-delivery of an id carries the
\* same payload
InboundOf(id) ==
  CASE id = "m1" -> [messageId |-> id, chatId |-> "c2", chatType |-> "direct",
                     senderId |-> "u1", senderOpenId |-> "u1", mentions |-> {},
                     atNames |-> {}, parentId |-> ""]
    [] id = "m2" -> [messageId |-> id, chatId |-> "c1", chatType |-> "group",
                     senderId |-> "u2", senderOpenId |-> "u2", mentions |-> {},
                     atNames |-> {}, parentId |-> "p2"]
    [] id = "m3" -> [messageId |-> id, chatId |-> "c1", chatType |-> "group",
                     senderId |-> "u1", senderOpenId |-> "u1",
                     mentions |-> {[key |-> "@_user_1", id |-> "ou_bot", name |-> "Bot"]},
                     atNames |-> {"bot"}, parentId |-> "p1"]
    [] OTHER     -> [messageId |-> id, chatId |-> "", chatType |-> "group",
                     senderId |-> "u2", senderOpenId |-> "u2", mentions |-> {},
                     atNames |-> {}, parentId |-> ""]

\* ids of the payloads above
InboundIds == {"", "m1", "m2", "m3"}

\* account snapshots the gateway is started with
Accounts ==
  { [dmPolicy |-> "pairing", allowFrom |-> {}, groupPolicy |-> "allowlist",
     groups |-> {}, requireMention |-> TRUE, botOpenId |-> "ou_bot",
     botName |-> "Bot"],
    [dmPolicy |-> "allowlist", allowFrom |-> {"u9"}, groupPolicy |-> "open",
     groups |-> {}, requireMention |-> TRUE, botOpenId |-> "", botName |-> ""] }

IsGroup(id) == InboundOf(id).chatType = "group"

\* fetchReplyContext up to its await: api.getMessage is called when the
\* message has a parentId
ParentFetched(message) == Truthy(message.parentId)

\* the ways the call of api.getMessage settles: a message, a response code
\* other than 0, no item in the response, or a rejection
GetMessageOutcomes == {"ok", "notOk", "notFound", "throws"}

\* the outcomes open to fetchReplyContext for a message
FetchOutcomes(message) ==
  IF ParentFetched(message) THEN GetMessageOutcomes ELSE {"none"}

\* the inbound message with its three reply fields
WithReply(inbound, body, senderId, id) ==
  inbound @@ [replyToBody |-> body, replyToSenderId |-> senderId, replyToId |-> id]

\* the inbound message as the transport parsed it: no reply field is set
Unenriched(inbound) == WithReply(inbound, Undefined, Undefined, Undefined)

\* fetchReplyContext that sets replyToId before it looks at the result
fetchReplyContextEager(inbound, outcome) ==
  IF ~Truthy(inbound.parentId) THEN Unenriched(inbound)
  ELSE IF outcome = "ok"
  THEN WithReply(inbound, "parent text", "parent sender", inbound.parentId)
  ELSE WithReply(inbound, Undefined, Undefined, inbound.parentId)

\* what fetchReplyContext resolves to
fetchReplyContext(inbound, outcome) ==
  IF ~Truthy(inbound.parentId) THEN Unenriched(inbound)
  ELSE IF outcome = "ok"
  THEN WithReply(inbound, "parent text", "parent sender", inbound.parentId)
  ELSE Unenriched(inbound)

NoFetch == [op |-> "none"]

\* the record of the call of fetchReplyContext that handler i awaited
FetchSettled(i, outcome) ==
  lastFetch' = [op |-> "fetch", id |-> handlers[i].id, outcome |-> outcome,
                called |-> handlers[i].fetched,
                result |-> fetchReplyContext(InboundOf(handlers[i].id), outcome),
                pc |-> handlers'[i].pc]

\* the count of gate calls beside a delivery: it starts anew for the id the
\* delivery inserts and for the ids its cleanup removes
GateCountAfterDelivery(id) ==
  gateReached' = [x \in MessageIds |->
                    IF SetHas(processedMessages', x)
                       /\ (SetHas(processedMessages, x) \/ x # id)
                      THEN gateReached[x] ELSE 0]

\* the count of gate calls beside the step in which handler i calls
\* buildFeishuMessageContext
GateCountAfterGate(i) ==
  gateReached' = [gateReached EXCEPT ![handlers[i].id] =
                    IF SetHas(processedMessages, handlers[i].id) THEN @ + 1 ELSE @]

SetPc(i, pc) == [handlers EXCEPT ![i].pc = pc]

\* ws.onmessage -> onMessage -> handleInboundMessage written without the
\* markProcessed call before the first await
DeliverWithoutMark(id) ==
  /\ Len(handlers) < MaxDeliveries
  /\ IF SetHas(processedMessages, id)
       THEN /\ handlers' = Append(handlers, [id |-> id, pc |-> "duplicate", fetched |-> FALSE,
                                          pending |-> <<>>])
            /\ UNCHANGED passed
       ELSE /\ handlers' = Append(handlers, [id |-> id, pc |-> "fetch",
                                          fetched |-> ParentFetched(InboundOf(id)),
                                          pending |-> <<>>])
            /\ passed' = [passed EXCEPT ![id] = @ + 1]
  /\ IsProcessed(id)
  /\ UNCHANGED <<account, dispatched, recordCalls>>

\* ws.onmessage -> onMessage -> handleInboundMessage up to its first await:
\* the dedup check, markProcessed, and the call of fetchReplyContext
Deliver(id) ==
  /\ Len(handlers) < MaxDeliveries
  /\ IF SetHas(processedMessages, id)
       THEN /\ handlers' = Append(handlers, [id |-> id, pc |-> "duplicate", fetched |-> FALSE,
                                          pending |-> <<>>])
            /\ IsProcessed(id)
            /\ UNCHANGED passed
       ELSE /\ handlers' = Append(handlers, [id |-> id, pc |-> "fetch",
                                          fetched |-> ParentFetched(InboundOf(id)),
                                          pending |-> <<>>])
            /\ MarkProcessed(id)
            /\ passed' = [x \in MessageIds |->
                            IF x = id THEN passed[x] + 1
                            ELSE IF SetHas(processedMessages, x)
                                    /\ ~SetHas(processedMessages', x) THEN 0
                            ELSE passed[x]]
  /\ UNCHANGED <<account, dispatched, recordCalls>>

\* the handler written to start over when the gate returns null
ContextBuiltRetrying(i, ok) ==
  /\ i \in 1..Len(handlers)
  /\ handlers[i].pc \in {"fetch", "blocked"}
  /\ ok => Truthy(InboundOf(handlers[i].id).parentId)
  /\ LET id == handlers[i].id
         pendingHistory == IF IsGroup(id)
                             THEN MapGetOrEmpty(groupHistories, InboundOf(id).chatId)
                             ELSE <<>>
     IN  /\ handlers' = [handlers EXCEPT
                           ![i].pc = IF handlers[i].pc = "blocked" THEN "fetch"
                                     ELSE IF ContextAllowed(InboundOf(id), account)
                                       THEN "session" ELSE "blocked",
                           ![i].pending = pendingHistory]
         /\ IF IsGroup(id) THEN HistGet(InboundOf(id).chatId) /\ UNCHANGED orderVars
                           ELSE UNCHANGED historyVars
  /\ UNCHANGED <<dedupeVars, account, passed, dispatched, recordCalls>>

\* fetchReplyContext settles (ok: the parent was fetched); the handler goes
\* on to history.get and buildFeishuMessageContext, which returns null or
\* runs up to its await of recordInboundSession
ContextBuilt(i, ok) ==
  /\ i \in 1..Len(handlers)
  /\ handlers[i].pc = "fetch"
  /\ ok => Truthy(InboundOf(handlers[i].id).parentId)
  /\ LET id == handlers[i].id
         pendingHistory == IF IsGroup(id)
                             THEN MapGetOrEmpty(groupHistories, InboundOf(id).chatId)
                             ELSE <<>>
     IN  /\ handlers' = [handlers EXCEPT
                           ![i].pc = IF ContextAllowed(InboundOf(id), account)
                                       THEN "session" ELSE "blocked",
                           ![i].pending = pendingHistory]
         /\ IF IsGroup(id) THEN HistGet(InboundOf(id).chatId) /\ UNCHANGED orderVars
                           ELSE UNCHANGED historyVars
  /\ UNCHANGED <<dedupeVars, account, passed, dispatched, recordCalls>>

\* the null branch written without the history.record call
BlockedNotRecorded(i) ==
  /\ i \in 1..Len(handlers)
  /\ handlers[i].pc = "blocked"
  /\ handlers' = SetPc(i, "denied")
  /\ UNCHANGED <<historyVars, recordCalls>>
  /\ UNCHANGED <<dedupeVars, account, passed, dispatched>>

\* the context was null: a group message is recorded to the history
BlockedRecorded(i) ==
  /\ i \in 1..Len(handlers)
  /\ handlers[i].pc = "blocked"
  /\ handlers' = SetPc(i, "denied")
  /\ IF IsGroup(handlers[i].id)
       THEN /\ HistRecord(InboundOf(handlers[i].id).chatId, handlers[i].id)
            /\ recordCalls' = [recordCalls EXCEPT ![handlers[i].id] = @ + 1]
            /\ UNCHANGED orderVars
       ELSE UNCHANGED <<historyVars, recordCalls>>
  /\ UNCHANGED <<dedupeVars, account, passed, dispatched>>

\* recordInboundSession settles: the context is returned and
\* dispatchFeishuMessage is called, or it threw and the handler's catch logs
SessionRecorded(i, ok) ==
  /\ i \in 1..Len(handlers)
  /\ handlers[i].pc = "session"
  /\ handlers' = SetPc(i, IF ok THEN "dispatch" ELSE "sessionFailed")
  /\ dispatched' = IF ok
                     THEN Append(dispatched, CtxPayload(InboundOf(handlers[i].id),
                                                        account))
                     ELSE dispatched
  /\ UNCHANGED <<dedupeVars, historyVars, account, passed, recordCalls>>

\* the ways dispatchFeishuMessage settles: it returns after a final reply
\* was queued; it returns queuedFinal false (no reply was produced, or
\* dispatchReplyFromConfig threw and the catch returned); it throws ahead of
\* its try block
DispatchOutcomes == {"replied", "noReply", "throws"}

NoDispatch == [i |-> 0, id |-> Undefined, outcome |-> "none"]

\* the record of the dispatch of handler i settling
DispatchSettled(i, outcome) ==
  lastDispatch' = [i |-> i, id |-> handlers[i].id, outcome |-> outcome]

\* dispatchFeishuMessage settles: it returned and a group's history is
\* cleared, or it threw and the handler's catch logs
Dispatched(i, outcome) ==
  /\ i \in 1..Len(handlers)
  /\ handlers[i].pc = "dispatch"
  /\ handlers' = SetPc(i, IF outcome # "throws" THEN "done" ELSE "failed")
  /\ IF outcome # "throws" /\ IsGroup(handlers[i].id)
       THEN HistClear(InboundOf(handlers[i].id).chatId) /\ UNCHANGED orderVars
       ELSE UNCHANGED historyVars
  /\ UNCHANGED <<dedupeVars, account, passed, dispatched, recordCalls>>

PipeInit(acc) ==
  /\ account = acc
  /\ handlers = <<>>
  /\ passed = [x \in MessageIds |-> 0]
  /\ dispatched = <<>>
  /\ recordCalls = [x \in MessageIds |-> 0]
  /\ lastGate = NoGateCall
  /\ SupervisorInit
  /\ RenderInit
  /\ lastFetch = NoFetch
  /\ gateReached = [x \in MessageIds |-> 0]
  /\ lastDispatch = NoDispatch
  /\ markLog = <<>>
  /\ freshOnly = TRUE

PipeIdle == PipeInit(CHOOSE acc \in Accounts : acc.requireMention /\ Truthy(acc.botOpenId))

(***************************************************************************)
(* The gateway: deliveries of the transport handled concurrently, over one *)
(* dedupe cache and one history manager.                                   *)
(***************************************************************************)
InitPipeline ==
  /\ \E max \in 1..MaxSizeBound : \E threshold \in 0..(max - 1) :
       DedupeInit(max, threshold)
  /\ HistoryIdle
  /\ \E acc \in Accounts : PipeInit(acc)

NextPipeline ==
  \/ \E id \in InboundIds : Deliver(id) /\ UNCHANGED <<historyVars, gateVars, wsVars, renderVars, resolveVars, horizonVars>>
  \/ \E i \in 1..MaxDeliveries : \E ok \in BOOLEAN :
       ContextBuilt(i, ok) /\ UNCHANGED <<gateVars, wsVars, renderVars, resolveVars, horizonVars>>
  \/ \E i \in 1..MaxDeliveries : BlockedRecorded(i) /\ UNCHANGED <<gateVars, wsVars, renderVars, resolveVars, horizonVars>>
  \/ \E i \in 1..MaxDeliveries : \E ok \in BOOLEAN :
       SessionRecorded(i, ok) /\ UNCHANGED <<gateVars, wsVars, renderVars, resolveVars, horizonVars>>
  \/ \E i \in 1..MaxDeliveries : \E outcome \in DispatchOutcomes :
       Dispatched(i, outcome) /\ UNCHANGED <<gateVars, wsVars, renderVars, resolveVars, horizonVars>>

SpecPipeline == InitPipeline /\ [][NextPipeline]_vars

\* C3: of the deliveries that carry the same message id, at most one passes
\* the dedup check while the id stays in the cache, whatever the interleaving
\* of the handlers: exactly one delivery has passed for an id that is in the
\* cache, none for an id that is not (never marked, or evicted since).
AtMostOnePassesDedup ==
  \A x \in MessageIds :
    /\ passed[x] <= 1
    /\ passed[x] = IF SetHas(processedMessages, x) THEN 1 ELSE 0

\* C3 witness: an id was delivered again while the handler of its first
\* delivery was still waiting, and the second delivery was dropped.
DuplicateDroppedWhileFirstInFlight ==
  \E i, j \in 1..Len(handlers) :
    /\ i < j
    /\ handlers[i].id = handlers[j].id
    /\ handlers[i].pc \in {"fetch", "session", "dispatch"}
    /\ handlers[j].pc = "duplicate"

\* the handlers of message id x in one of the positions pcs
HandlersAt(h, x, pcs) == {i \in 1..Len(h) : h[i].id = x /\ h[i].pc \in pcs}

\* deliveries of x that passed the dedup check
Admitted(h, x) ==
  Cardinality({i \in 1..Len(h) : h[i].id = x /\ h[i].pc # "duplicate"})

\* context payloads of x handed to dispatchFeishuMessage
Dispatches(x) ==
  Cardinality({j \in 1..Len(dispatched) : dispatched[j].MessageSid = x})

\* C18: the dedup check precedes the access decision and the access decision
\* precedes reply-context resolution: a delivery dropped as a duplicate or
\* denied by policy has not triggered a fetch of its parent message.
NoParentFetchWhenDropped ==
  \A i \in 1..Len(handlers) :
    handlers[i].pc \in {"duplicate", "blocked", "denied"} => ~handlers[i].fetched

\* C30: when an addressed and an unaddressed event of one group are handled
\* concurrently, no recorded entry is dropped without having been supplied as
\* context: the entries the clear after a dispatch removes are all part of
\* the pending history that handler passed to the responder.
ClearDropsOnlySuppliedEntries ==
  [][\A i \in 1..Len(handlers) :
       (/\ handlers[i].pc = "dispatch"
        /\ handlers'[i].pc = "done"
        /\ IsGroup(handlers[i].id)) =>
         Range(MapGetOrEmpty(groupHistories, InboundOf(handlers[i].id).chatId))
           \subseteq Range(handlers[i].pending)]_vars

\* x is a group message without a mention of the bot, under requireMention
\* with the bot identity known
GatedOut(x) ==
  /\ IsGroup(x)
  /\ account.groupPolicy # "disabled"
  /\ account.requireMention
  /\ Truthy(account.botOpenId) \/ Truthy(account.botName)
  /\ ~IsBotMentioned(InboundOf(x), account.botOpenId, account.botName)

\* C19: a group message without a mention, with requireMention true and the
\* bot identity known, produces zero dispatches and exactly one history
\* entry, however many times the transport re-delivers it: never more than
\* one record call, and one as soon as a handler of it has finished.
GatedGroupRecordedOnce ==
  \A x \in InboundIds :
    GatedOut(x) =>
      /\ Dispatches(x) = 0
      /\ recordCalls[x] <= 1
      /\ HandlersAt(handlers, x, {"denied"}) # {} => recordCalls[x] = 1

\* C19 as amended: such a message produces zero dispatches and one history
\* record per delivery of it that passes the dedup check; a re-delivery made
\* while its id is retained by the dedupe cache passes no check and adds no
\* record.
GatedGroupRecordedPerAdmission ==
  /\ [](\A x \in InboundIds :
          GatedOut(x) =>
            /\ Dispatches(x) = 0
            /\ recordCalls[x] = Cardinality(HandlersAt(handlers, x, {"denied"}))
            /\ recordCalls[x] <= Admitted(handlers, x))
  /\ [][\A x \in InboundIds :
          (GatedOut(x) /\ SetHas(processedMessages, x)
             /\ SetHas(processedMessages', x)) =>
            Admitted(handlers', x) = Admitted(handlers, x)]_vars

\* C19 witness: the message was delivered twice, the second delivery was
\* dropped as a duplicate, the first was denied and recorded once.
GatedGroupRedeliveredRecordedOnce ==
  \E x \in InboundIds :
    /\ GatedOut(x)
    /\ HandlersAt(handlers, x, {"denied"}) # {}
    /\ HandlersAt(handlers, x, {"duplicate"}) # {}
    /\ recordCalls[x] = 1
    /\ Dispatches(x) = 0

\* x is a direct message from an allowed sender with no parent
AllowedDm(x) ==
  /\ ~IsGroup(x)
  /\ ContextAllowed(InboundOf(x), account)
  /\ ~Truthy(InboundOf(x).parentId)

InitDedupe ==
  /\ \E max \in 1..MaxSizeBound : \E threshold \in 0..(max - 1) :
       DedupeInit(max, threshold)
  /\ HistoryIdle
  /\ PipeIdle

NextDedupe ==
  \/ \E x \in MessageIds : IsProcessed(x) /\ UNCHANGED <<historyVars, pipeVars, gateVars, wsVars, renderVars, resolveVars, horizonVars>>
  \/ \E x \in MessageIds : MarkProcessed(x) /\ UNCHANGED <<historyVars, pipeVars, gateVars, wsVars, renderVars, resolveVars, horizonVars>>
  \/ DedupeClear /\ UNCHANGED <<historyVars, pipeVars, gateVars, wsVars, renderVars, resolveVars, horizonVars>>

SpecDedupe == InitDedupe /\ [][NextDedupe]_vars

(***************************************************************************)
(* The history manager on its own: every option pair, every sequence of    *)
(* calls.                                                                  *)
(***************************************************************************)
InitHistory ==
  /\ \E limit \in 1..MaxHistoryLimit : \E maxG \in 1..MaxGroupsBound :
       HistoryInit(limit, maxG)
  /\ DedupeIdle
  /\ PipeIdle

NextHistory ==
  \/ \E c \in ChatIds : \E e \in Entries :
       HistRecord(c, e) /\ UNCHANGED <<orderVars, dedupeVars, pipeVars, gateVars, wsVars, renderVars, resolveVars, horizonVars>>
  \/ \E c \in ChatIds : HistGet(c) /\ UNCHANGED <<orderVars, dedupeVars, pipeVars, gateVars, wsVars, renderVars, resolveVars, horizonVars>>
  \/ \E c \in ChatIds : HistClear(c) /\ UNCHANGED <<orderVars, dedupeVars, pipeVars, gateVars, wsVars, renderVars, resolveVars, horizonVars>>
  \/ HistClearAll /\ UNCHANGED <<orderVars, dedupeVars, pipeVars, gateVars, wsVars, renderVars, resolveVars, horizonVars>>

SpecHistory == InitHistory /\ [][NextHistory]_vars

(***************************************************************************)
(* The history manager with the order of the record calls kept beside it.  *)
(***************************************************************************)
NextHistoryOrder ==
  \/ \E c \in ChatIds : \E e \in Entries :
       HistRecord(c, e) /\ OrderAfterRecord(c) /\ UNCHANGED <<dedupeVars, pipeVars, gateVars, wsVars, renderVars, resolveVars, horizonVars>>
  \/ \E c \in ChatIds :
       HistGet(c) /\ OrderAfterOther(TRUE) /\ UNCHANGED <<dedupeVars, pipeVars, gateVars, wsVars, renderVars, resolveVars, horizonVars>>
  \/ \E c \in ChatIds :
       HistClear(c) /\ OrderAfterOther(FALSE) /\ UNCHANGED <<dedupeVars, pipeVars, gateVars, wsVars, renderVars, resolveVars, horizonVars>>
  \/ HistClearAll /\ OrderAfterOther(FALSE) /\ UNCHANGED <<dedupeVars, pipeVars, gateVars, wsVars, renderVars, resolveVars, horizonVars>>

SpecHistoryOrder == InitHistory /\ [][NextHistoryOrder]_vars

\* position of chat c in a sequence of chats, 0 when it does not occur
PosIn(seq, c) == IF c \in Range(seq) THEN CHOOSE i \in 1..Len(seq) : seq[i] = c ELSE 0

\* C5: the number of tracked conversations never exceeds maxGroups, after any
\* sequence of record, get and clear calls.
GroupCountWithinMax == GroupCount <= maxGroups

\* C6: after one record call into each of maxGroups + 1 distinct
\* conversations (and nothing else), the first one recorded is evicted: it is
\* not tracked any more and get on it is empty.
FirstOfCapPlusOneEvicted ==
  (distinctOnly /\ Len(recOrder) = maxGroups + 1) =>
    /\ ~MapHas(groupHistories, recOrder[1])
    /\ MapGetOrEmpty(groupHistories, recOrder[1]) = <<>>

\* C7: get(c) holds at most historyLimit entries and they are the last
\* historyLimit entries recorded to c since c was last cleared or evicted, in
\* recording order.
HistoryIsLastLimitRecorded ==
  \A c \in ChatIds :
    /\ Len(MapGetOrEmpty(groupHistories, c)) <= historyLimit
    /\ MapGetOrEmpty(groupHistories, c) = LastN(recordedTo[c], historyLimit)

\* C7 witness: a record call on a conversation that already held historyLimit
\* entries recorded since its last clear or eviction, so that the oldest one
\* left; the conversation holds two different entries afterwards.
HistoryTrimmedAtLimit ==
  /\ lastHist.op = "record"
  /\ lastHist.dropped
  /\ LET h == MapGetOrEmpty(groupHistories, lastHist.chatId) IN
       Len(h) = historyLimit /\ h[1] # h[Len(h)]

\* C8: a record(c, e) call leaves c the most recent conversation, and the
\* conversations its capacity eviction removes are those whose last record
\* call is oldest: no other conversation that stays tracked has an older last
\* record call than one that is evicted.
EvictionFollowsRecordOrder ==
  [][lastHist'.op = "record" =>
       /\ groupHistories'[Len(groupHistories')].key = lastHist'.chatId
       /\ \A k \in lastHist'.evicted :
            \A d \in MapKeys(groupHistories) \ (lastHist'.evicted \cup {lastHist'.chatId}) :
              (k \in Range(recOrder) /\ d \in Range(recOrder)) =>
                PosIn(recOrder, k) < PosIn(recOrder, d)]_vars

\* C9: every entry get(c) returns was recorded to c since c was last cleared
\* or evicted, and a record or clear call on c leaves get(d) as it was for
\* every other conversation d that the call does not evict.
HistoryNeverLeaks ==
  /\ [](\A c \in ChatIds :
          Range(MapGetOrEmpty(groupHistories, c)) \subseteq Range(recordedTo[c]))
  /\ [][lastHist'.op \in {"record", "clear"} =>
          \A d \in ChatIds \ ({lastHist'.chatId} \cup lastHist'.evicted) :
            MapGetOrEmpty(groupHistories', d) = MapGetOrEmpty(groupHistories, d)]_vars

\* C9 witness: a record call evicted a conversation while a third one, neither
\* evicted nor recorded to, held entries.
EvictedBesideNonEmpty ==
  /\ lastHist.op = "record"
  /\ lastHist.evicted # {}
  /\ \E d \in ChatIds \ ({lastHist.chatId} \cup lastHist.evicted) :
       MapGetOrEmpty(groupHistories, d) # <<>>

\* C10: get changes nothing: the Map, its size and its key order stay as they
\* were, and get on an untracked conversation returns the empty sequence.
GetIsReadOnly ==
  [][lastHist'.op = "get" =>
       /\ groupHistories' = groupHistories
       /\ Len(groupHistories') = GroupCount
       /\ lastHist'.result = MapGetOrEmpty(groupHistories, lastHist'.chatId)
       /\ ~MapHas(groupHistories, lastHist'.chatId) => lastHist'.result = <<>>]_vars

\* C10 witness: get was called on an untracked conversation while others were
\* tracked.
GetOnUntracked ==
  /\ lastHist.op = "get"
  /\ ~MapHas(groupHistories, lastHist.chatId)
  /\ GroupCount >= 1

\* the keys of the Map in iteration order, which is the eviction order
KeyOrder(m) == [i \in 1..Len(m) |-> m[i].key]

\* C11: clear(c) on a tracked conversation c makes get(c) empty while c stays
\* tracked: groupCount and the place of c in the eviction order are as before
\* the call, and the entries of every other conversation are unchanged.
ClearKeepsTracking ==
  [][(lastHist'.op = "clear" /\ MapHas(groupHistories, lastHist'.chatId)) =>
       /\ MapGetOrEmpty(groupHistories', lastHist'.chatId) = <<>>
       /\ MapHas(groupHistories', lastHist'.chatId)
       /\ Len(groupHistories') = GroupCount
       /\ KeyOrder(groupHistories') = KeyOrder(groupHistories)
       /\ \A d \in ChatIds \ {lastHist'.chatId} :
            MapGetOrEmpty(groupHistories', d) = MapGetOrEmpty(groupHistories, d)]_vars

\* C11 witness: clear emptied the conversation that is first in the eviction
\* order while a later one still holds entries.
ClearedOldestBesideNonEmpty ==
  /\ lastHist.op = "clear"
  /\ GroupCount >= 2
  /\ groupHistories[1].key = lastHist.chatId
  /\ groupHistories[1].val = <<>>
  /\ groupHistories[2].val # <<>>

(***************************************************************************)
(* The access decision on its own: every account of GateAccounts, every    *)
(* message of GateMessages.                                                *)
(***************************************************************************)
\* mention lists of the messages: none, the bot picked by id, the bot under a
\* name that differs in case and blanks and carries no id, @everyone, another
\* member
MentionLists ==
  { {},
    {[key |-> "@_user_1", id |-> "ou_bot", name |-> "Bot"]},
    {[key |-> "@_user_1", id |-> "", name |-> " bot "]},
    {[key |-> "@_all", id |-> "", name |-> "everyone"]},
    {[key |-> "@_user_1", id |-> "ou_alice", name |-> "alice"]} }

\* senders: one with an open_id, one known by user_id only
Senders ==
  { [senderId |-> "u1", senderOpenId |-> "u1"],
    [senderId |-> "u2", senderOpenId |-> Undefined] }

GateMessages ==
  { [messageId |-> "m1", chatId |-> c, chatType |-> t,
     senderId |-> s.senderId, senderOpenId |-> s.senderOpenId,
     mentions |-> ms, atNames |-> AtNames(ms, typed), parentId |-> ""] :
      c \in {"c1", "c2"}, t \in {"direct", "group"}, s \in Senders,
      ms \in MentionLists, typed \in BOOLEAN }

GateAccounts ==
  [dmPolicy : {"pairing", "allowlist", "open", "disabled"},
   allowFrom : {{}, {"u2"}},
   groupPolicy : {"allowlist", "open", "disabled"},
   groups : {{}, {"c1"}},
   requireMention : BOOLEAN,
   botOpenId : {"", "ou_bot"},
   botName : {"", "Bot"}]

InitGate ==
  /\ DedupeIdle
  /\ HistoryIdle
  /\ \E acc \in GateAccounts : PipeInit(acc)

NextGate ==
  \/ \E message \in GateMessages : BuildContext(message)
  \/ \E message \in GateMessages : WebhookMentionCheck(message)

SpecGate == InitGate /\ [][NextGate]_vars

\* the last call was buildFeishuMessageContext on a direct message
BuiltDirect == lastGate.op = "build" /\ lastGate.message.chatType = "direct"

\* the last call was buildFeishuMessageContext on a group message
BuiltGroup == lastGate.op = "build" /\ lastGate.message.chatType = "group"

\* C12: with dmPolicy = pairing and a non-empty allowFrom, a direct message
\* from a sender that is not in allowFrom is denied.
PairingDeniesUnlisted ==
  (/\ BuiltDirect
   /\ account.dmPolicy = "pairing"
   /\ account.allowFrom # {}
   /\ GateSenderId(lastGate.message) \notin account.allowFrom)
    => ~lastGate.allowed

DisabledDeniesAll ==
  /\ (BuiltGroup /\ account.groupPolicy = "disabled") => ~lastGate.allowed
  /\ (BuiltDirect /\ account.dmPolicy = "disabled") => ~lastGate.allowed

\* C14 witness: a group event that mentions the bot by id was denied under
\* groupPolicy = disabled with requireMention false.
DisabledDeniedMentioned ==
  /\ BuiltGroup
  /\ account.groupPolicy = "disabled"
  /\ ~account.requireMention
  /\ lastGate.mentioned
  /\ ~lastGate.allowed

\* C15: for a group event with groupPolicy not disabled: when requireMention
\* is true and the bot is not mentioned, the event is allowed if and only if
\* neither the bot's id nor its name is known; when requireMention is false or
\* the bot is mentioned, it is allowed.
MentionRequirement ==
  (BuiltGroup /\ account.groupPolicy # "disabled") =>
    IF account.requireMention /\ ~lastGate.mentioned
      THEN lastGate.allowed <=>
             (~Truthy(account.botOpenId) /\ ~Truthy(account.botName))
      ELSE lastGate.allowed

\* C15 witness: a group event without a mention of the bot was allowed under
\* requireMention because the bot's identity is unknown.
FailOpenAllowed ==
  /\ BuiltGroup
  /\ account.groupPolicy # "disabled"
  /\ account.requireMention
  /\ ~lastGate.mentioned
  /\ ~Truthy(account.botOpenId) /\ ~Truthy(account.botName)
  /\ lastGate.allowed

\* C16: a group event counts as mentioning the bot when one of its mentions
\* has the bot's id, or a name equal to the bot's name after trimming and case
\* folding, or is the @everyone (@_all) token; an @everyone message passes the
\* requireMention gate.
EveryoneCountsAsMention ==
  (BuiltGroup /\ account.groupPolicy # "disabled") =>
    /\ (\E m \in lastGate.message.mentions :
          \/ Truthy(account.botOpenId) /\ m.id = account.botOpenId
          \/ Truthy(account.botName) /\ Truthy(m.name)
               /\ NormalizeMentionName(m.name) = NormalizeMentionName(account.botName)
          \/ m.key = "@_all")
         => lastGate.mentioned
    /\ (\E m \in lastGate.message.mentions : m.key = "@_all") => lastGate.allowed

\* C17: with groupPolicy = allowlist a group event is allowed only if its
\* conversation id is configured in the account's groups.
GroupAllowlistOnlyConfigured ==
  (BuiltGroup /\ account.groupPolicy = "allowlist" /\ lastGate.allowed)
    => lastGate.message.chatId \in account.groups

(***************************************************************************)
(* The connection supervisor: the native client driven by start, stop, the *)
(* network and its timers.                                                 *)
(***************************************************************************)
otherVars == <<dedupeVars, historyVars, pipeVars, gateVars, renderVars, resolveVars,
               horizonVars>>

InitSupervisor ==
  /\ DedupeIdle
  /\ HistoryIdle
  /\ PipeIdle

NextSupervisor ==
  \/ Start /\ UNCHANGED otherVars
  \/ ReconnectTimerFires /\ UNCHANGED otherVars
  \/ \E i \in DOMAIN connects : \E outcome \in {"ok", "fail", "socketThrows"} :
       ConnectSettles(i, outcome) /\ UNCHANGED otherVars
  \/ SocketOpen /\ UNCHANGED otherVars
  \/ SocketClose /\ UNCHANGED otherVars
  \/ ClosedSocketClose /\ UNCHANGED otherVars
  \/ HeartbeatTick /\ UNCHANGED otherVars
  \/ \E kind \in FrameKinds : FrameReceived(kind) /\ UNCHANGED otherVars
  \/ Stop /\ UNCHANGED otherVars

SpecSupervisor == InitSupervisor /\ [][NextSupervisor]_vars

\* Timers fire, awaited fetches settle, and a socket that is connecting or was
\* closed gets its open or close event.  Drops of an open connection, frames
\* and stop() are up to the environment.
SupervisorFairness ==
  /\ WF_vars(ReconnectTimerFires /\ UNCHANGED otherVars)
  /\ WF_vars(\E i \in DOMAIN connects : \E outcome \in {"ok", "fail", "socketThrows"} :
               ConnectSettles(i, outcome) /\ UNCHANGED otherVars)
  /\ WF_vars(ws = "CONNECTING" /\ (SocketOpen \/ SocketClose) /\ UNCHANGED otherVars)
  /\ WF_vars(ClosedSocketClose /\ UNCHANGED otherVars)
  /\ WF_vars(HeartbeatTick /\ UNCHANGED otherVars)

SpecSupervisorFair == SpecSupervisor /\ SupervisorFairness

\* at most one connect() is in flight, and then no socket is referenced
OneConnectAtATime == Len(connects) <= 1 /\ (connects # <<>> => ws = "null")

\* the values of the client's own variables
ClientState == <<state, ws, closing, heartbeatInterval, reconnectTimeout,
                 reconnectAttempts, connects, status>>

\* C21: stop is terminal: once stop() has been called the state is
\* disconnected and stays so, and no socket, heartbeat timer or reconnect
\* timer is active, whatever was in flight when it was called.
StopIsTerminal ==
  stopped =>
    /\ state = "disconnected"
    /\ ws = "null"
    /\ ~heartbeatInterval
    /\ reconnectTimeout # "armed"

\* the transitions of the specified state machine that need no stop
SpecifiedTransitions ==
  { <<"disconnected", "connecting">>, <<"connecting", "connected">>,
    <<"connected", "reconnecting">>, <<"reconnecting", "connected">>,
    <<"reconnecting", "disconnected">> }

\* C22: every state change the state-change handler observes is one of
\* disconnected to connecting, connecting to connected, connected to
\* reconnecting, reconnecting to connected, reconnecting to disconnected, or,
\* made by stop, any state to disconnected.
OnlySpecifiedTransitions ==
  \A j \in 1..Len(lastWs.trans) :
    \/ lastWs.trans[j] \in SpecifiedTransitions
    \/ lastWs.op = "stop" /\ lastWs.trans[j][2] = "disconnected"

\* C23: after a drop with attempts remaining the client goes on retrying
\* until a retry succeeds or the attempts are exhausted: from reconnecting
\* (stop not having been called) it eventually reaches connected or
\* disconnected.
RetriesUntilSettled ==
  []((state = "reconnecting" /\ ~stopped) =>
       <>(state \in {"connected", "disconnected"}))

\* C24: while connected, keep-alive frames that receive no response make the
\* client leave connected.
HeartbeatLossLeavesConnected ==
  (state = "connected" /\ ~stopped /\ unanswered >= MaxUnanswered)
    ~> (state # "connected")

\* C25: stop() leaves the client disconnected with no timer and no socket,
\* a second stop() changes nothing, and the reconnect timer that was pending
\* when stop() was called is cancelled: it cannot fire.
StopIdempotentCancelsTimer ==
  /\ [](lastWs.op = "stop" =>
          /\ state = "disconnected"
          /\ ws = "null"
          /\ ~heartbeatInterval
          /\ reconnectTimeout = "null"
          /\ ~ENABLED ReconnectTimerFires)
  /\ [][(lastWs.op = "stop" /\ lastWs'.op = "stop") =>
          ClientState' = ClientState]_vars

\* C25 witness: stop() was called with a reconnect timer pending, and then
\* called again.
StoppedTwiceWithTimerPending ==
  /\ lastWs.op = "stop"
  /\ lastWs.after = "stop"
  /\ lastWs.kind = "armed"

\* C26: the delay before the k-th consecutive reconnect attempt (k from 0) is
\* 1000 * 2^k ms, the attempt counter stays within 0..10, and it is 0
\* whenever the state becomes connected.
BackoffDoubles ==
  /\ reconnectAttempts \in 0..10
  /\ lastWs.scheduled => lastWs.delay = 1000 * 2 ^ (failures - 1)
  /\ lastWs.op = "open" => (state = "connected" /\ reconnectAttempts = 0)

\* C26 witness: the third consecutive reconnect (k = 2) was scheduled, with a
\* delay of 4000 ms.
ThirdRetryScheduled ==
  /\ lastWs.scheduled
  /\ failures = 3
  /\ lastWs.delay = 4000
  /\ status.running

ExhaustionSurfaced ==
  exhausted => (status.running = FALSE /\ Truthy(status.lastError))

\* C29: a frame that cannot be decoded, or a message whose handling throws,
\* leaves the connection as it was (state, socket, timers, counters) and a
\* message frame that follows is handed to the message handler.
FrameFaultsIsolated ==
  /\ [][lastWs'.op = "frame" => ClientState' = ClientState]_vars
  /\ []((lastWs.op = "frame" /\ lastWs.kind \in {"message", "messageThrows"}) =>
          (lastWs.handled /\ ws = "OPEN"))

\* C29 witness: a message frame was handed over right after an undecodable
\* frame, on a connected client.
MessageAfterUndecodable ==
  /\ lastWs.op = "frame"
  /\ lastWs.kind = "message"
  /\ lastWs.after = "undecodable"
  /\ lastWs.handled
  /\ state = "connected"

\* C1: size() never exceeds maxSize, for every sequence of markProcessed calls
\* and every option pair with cleanupThreshold < maxSize.
DedupeSizeWithinMax == DedupeSize <= maxSize

\* C2: a markProcessed(x) call made while size >= maxSize removes exactly
\* size - cleanupThreshold ids, those are the oldest by insertion order, the
\* removal precedes the insertion of x, and x is present when the call returns.
MarkEvictsExactlyOldest ==
  (lastDedupe.op = "markProcessed" /\ Len(lastDedupe.before) >= maxSize) =>
    LET size == Len(lastDedupe.before) IN
      /\ Len(lastDedupe.cleaned) = size - (size - cleanupThreshold)
      /\ lastDedupe.cleaned =
           SubSeq(lastDedupe.before, (size - cleanupThreshold) + 1, size)
      /\ processedMessages = SetAdd(lastDedupe.cleaned, lastDedupe.x)
      /\ SetHas(processedMessages, lastDedupe.x)

\* C4: isProcessed(x) answers false for an id that was never marked, true for
\* an id that was marked and has not been removed since, and the call leaves
\* the members of the cache and their order as they were; markProcessed(x)
\* leaves x a member.
IsProcessedIsPureMembership ==
  /\ lastDedupe.op = "isProcessed" =>
       /\ lastDedupe.x \notin everMarked => lastDedupe.result = FALSE
       /\ lastDedupe.result = (lastDedupe.x \in everMarked /\ lastDedupe.x \notin lost)
       /\ processedMessages = lastDedupe.before
  /\ lastDedupe.op = "markProcessed" => SetHas(processedMessages, lastDedupe.x)

\* C4 witness: isProcessed answered true for a retained id after other ids
\* had been evicted, in a cache holding several ids.
IsProcessedHitAfterEviction ==
  /\ lastDedupe.op = "isProcessed"
  /\ lastDedupe.result = TRUE
  /\ lost # {}
  /\ Len(processedMessages) >= 2
  /\ processedMessages[1] = lastDedupe.x

(***************************************************************************)
(* The reply renderer on its own: payloads of every explored text, with or *)
(* without a media URL, for every render mode, in a group and in a DM.     *)
(***************************************************************************)
InitRender ==
  /\ DedupeIdle
  /\ HistoryIdle
  /\ PipeIdle

\* the callback and the senders keep nothing between two calls, so a run
\* makes one call
NextRender ==
  /\ lastSend = NoSend
  /\ \E text \in Texts : \E mediaUrl \in MediaUrls :
       \E accountMode \in RenderModes : \E isGroup \in BOOLEAN :
         DeliverPayload(text, mediaUrl, accountMode, isGroup)
  /\ UNCHANGED <<dedupeVars, historyVars, pipeVars, gateVars, wsVars, resolveVars, horizonVars>>

SpecRender == InitRender /\ [][NextRender]_vars

\* C31: for an account whose renderMode is raw, every reply text delivered
\* is posted as a plain text message, never as a card, whatever it contains.
RawAlwaysPlain ==
  (lastSend.op = "reply" /\ lastSend.mode = "raw") => lastSend.msgType = "text"

\* paragraph breaks of a text: the places where one or more blank lines
\* separate what precedes from what follows
ParagraphBreaks(s) ==
  Cardinality({i \in 1..(Len(s) - 1) :
                 /\ s[i] = "\n" /\ s[i + 1] = "\n"
                 /\ (i = 1 \/ s[i - 1] # "\n")})

RichFeature(text) ==
  \/ TestCodeBlock(text.head)
  \/ TestTable(text.head)
  \/ TestLink(text.head)
  \/ TextLength(text) > 500
  \/ ParagraphBreaks(text.head) >= 3

\* C32: the classification of a reply text is a boolean, and it is rich if
\* and only if the text has a fenced code block, a table header followed by
\* a separator row, a markdown link, more than 500 characters or at least 3
\* blank-line paragraph breaks.
ClassifyMatchesFeatures ==
  lastSend.op = "reply" =>
    /\ lastSend.classified \in BOOLEAN
    /\ lastSend.classified <=> RichFeature(lastSend.text)

(***************************************************************************)
(* The gateway with the result of every fetchReplyContext call and the     *)
(* gate calls made per id recorded.                                        *)
(***************************************************************************)
InitResolver ==
  /\ \E max \in {1, MaxSizeBound} : DedupeInit(max, max - 1)
  /\ HistoryIdle
  /\ PipeIdle

NextResolver ==
  \/ \E id \in InboundIds :
       /\ Deliver(id) /\ GateCountAfterDelivery(id)
       /\ UNCHANGED <<historyVars, gateVars, wsVars, renderVars, lastFetch,
                      lastDispatch, horizonVars>>
  \/ \E i \in 1..MaxDeliveries :
       /\ i \in 1..Len(handlers)
       /\ \E outcome \in FetchOutcomes(InboundOf(handlers[i].id)) :
            ContextBuilt(i, outcome = "ok") /\ FetchSettled(i, outcome)
       /\ GateCountAfterGate(i)
       /\ UNCHANGED <<gateVars, wsVars, renderVars, lastDispatch, horizonVars>>
  \/ \E i \in 1..MaxDeliveries :
       BlockedRecorded(i) /\ UNCHANGED <<gateVars, wsVars, renderVars, resolveVars, horizonVars>>
  \/ \E i \in 1..MaxDeliveries : \E ok \in BOOLEAN :
       SessionRecorded(i, ok) /\ UNCHANGED <<gateVars, wsVars, renderVars, resolveVars, horizonVars>>
  \/ \E i \in 1..MaxDeliveries : \E outcome \in DispatchOutcomes :
       Dispatched(i, outcome) /\ UNCHANGED <<gateVars, wsVars, renderVars, resolveVars, horizonVars>>

SpecResolver == InitResolver /\ [][NextResolver]_vars

\* C33: a parent fetch that fails (rejection, not found, or a not-ok result)
\* gives back the inbound message with no reply field set and the handler
\* goes on to the access gate; a message without a parent id causes no
\* fetch and is given back as it was.
ReplyContextBestEffort ==
  lastFetch.op = "fetch" =>
    LET inbound == InboundOf(lastFetch.id)
    IN /\ lastFetch.called <=> Truthy(inbound.parentId)
       /\ (~lastFetch.called \/ lastFetch.outcome # "ok")
            => /\ lastFetch.result = Unenriched(inbound)
               /\ lastFetch.pc \in {"session", "blocked"}

\* the addressed group message m3 was answered although the fetch of its
\* parent was rejected
AnsweredAfterFailedParentFetch ==
  /\ lastFetch.op = "fetch" /\ lastFetch.id = "m3" /\ lastFetch.outcome = "throws"
  /\ lastFetch.called
  /\ \E i \in 1..Len(handlers) : handlers[i].id = "m3" /\ handlers[i].pc = "done"
  /\ \E k \in 1..Len(dispatched) : dispatched[k].MessageSid = "m3"

\* C34: a record call on a tracked chat leaves, as that chat's history, its
\* previous entries followed by the new one, trimmed to the last
\* historyLimit; the eviction made inside the call does not discard them.
RecordKeepsOwnEntries ==
  [][(lastHist'.op = "record" /\ MapHas(groupHistories, lastHist'.chatId))
       => \E e \in Entries :
            MapGetOrEmpty(groupHistories', lastHist'.chatId)
              = LastN(Append(MapGetOrEmpty(groupHistories, lastHist'.chatId), e),
                      historyLimit)]_vars

\* positions at which a handler has ended
EndedPcs == {"duplicate", "denied", "sessionFailed", "failed", "done"}

\* a delivery of an id that is in the cache is dropped, and a dropped
\* delivery is never taken up again
RedeliveryDropped ==
  \A i \in 1..Len(handlers') :
    /\ (i > Len(handlers) /\ SetHas(processedMessages, handlers'[i].id))
         => handlers'[i].pc = "duplicate"
    /\ (i <= Len(handlers) /\ handlers[i].pc = "duplicate")
         => handlers'[i] = handlers[i]

\* C35 as stated: while an id is in the dedupe cache it reaches the access
\* gate at most once, and a re-delivery of it is dropped and never retried.
GateOnceWhileRetained ==
  /\ [](\A x \in MessageIds : SetHas(processedMessages, x) => gateReached[x] <= 1)
  /\ [][RedeliveryDropped]_vars

\* C35, amended: a delivery of an id that is in the dedupe cache is dropped
\* before the gate and never taken up again, whatever became of the earlier
\* handling; a delivery that passed the check calls the gate once and never
\* returns to it.
AdmittedReachesGateOnce ==
  [][/\ RedeliveryDropped
     /\ \A i \in 1..Len(handlers) :
          /\ handlers[i].pc # "fetch" => handlers'[i].pc # "fetch"
          /\ handlers[i].pc \in EndedPcs => handlers'[i] = handlers[i]
          /\ (handlers[i].pc = "fetch" /\ handlers'[i].pc # "fetch")
               => /\ handlers'[i].pc \in {"session", "blocked"}
                  /\ gateReached'[handlers[i].id] <= gateReached[handlers[i].id] + 1]_vars

\* m3 was delivered again, and dropped, after its first handling had failed
\* in the dispatch
RedeliveredAfterFailureDropped ==
  \E i, j \in 1..Len(handlers) :
    /\ i < j
    /\ handlers[i].id = "m3" /\ handlers[i].pc = "failed"
    /\ handlers[j].id = "m3" /\ handlers[j].pc = "duplicate"
    /\ gateReached["m3"] = 1

(***************************************************************************)
(* The dedupe cache with the latest markProcessed calls logged.  The       *)
(* handler marks an id only after isProcessed answered false for it; the   *)
(* log stops at the first call of another kind.                            *)
(***************************************************************************)
\* the log beside markProcessed(x)
MarkLogged(x) ==
  /\ freshOnly' = (freshOnly /\ ~SetHas(processedMessages, x))
  /\ markLog' = IF freshOnly'
                  THEN LastN(Append(markLog, x), cleanupThreshold + 1)
                  ELSE <<>>

InitHorizon ==
  /\ \E max \in 1..MaxSizeBound : \E threshold \in 0..(max - 1) :
       DedupeInit(max, threshold)
  /\ HistoryIdle
  /\ PipeIdle

NextHorizon ==
  \/ \E x \in MessageIds :
       /\ IsProcessed(x)
       /\ UNCHANGED <<historyVars, pipeVars, gateVars, wsVars, renderVars, resolveVars,
                      horizonVars>>
  \/ \E x \in MessageIds :
       /\ MarkProcessed(x) /\ MarkLogged(x)
       /\ UNCHANGED <<historyVars, pipeVars, gateVars, wsVars, renderVars, resolveVars>>
  \/ /\ DedupeClear
     /\ freshOnly' = FALSE /\ markLog' = <<>>
     /\ UNCHANGED <<historyVars, pipeVars, gateVars, wsVars, renderVars, resolveVars>>

SpecHorizon == InitHorizon /\ [][NextHorizon]_vars

\* C36: as long as markProcessed was only called on ids that were not in
\* the cache, the ids of the latest cleanupThreshold + 1 calls are all
\* reported as processed.
DedupHorizon ==
  freshOnly =>
    /\ Len(markLog) <= cleanupThreshold + 1
    /\ \A k \in 1..Len(markLog) : SetHas(processedMessages, markLog[k])

\* a cleanup has just removed ids and the log is full
HorizonKeptAcrossCleanup ==
  /\ freshOnly
  /\ cleanupThreshold >= 1
  /\ Len(markLog) = cleanupThreshold + 1
  /\ lastDedupe.op = "markProcessed"
  /\ lastDedupe.cleaned # lastDedupe.before

\* the native client with start() callable in every state, and the events of
\* the sockets that leaves behind
NextLifecycle ==
  \/ NextSupervisor
  \/ StartAgain /\ UNCHANGED otherVars
  \/ OrphanOpen /\ UNCHANGED otherVars
  \/ OrphanClose /\ UNCHANGED otherVars

SpecLifecycle == InitSupervisor /\ [][NextLifecycle]_vars

\* sockets that are connecting or open, heartbeat intervals that are set and
\* reconnect timers that are pending
LiveSockets ==
  (IF ws \in {"CONNECTING", "OPEN"} THEN 1 ELSE 0) + orphans.CONNECTING + orphans.OPEN
ActiveHeartbeats == (IF heartbeatInterval THEN 1 ELSE 0) + strayHeartbeats
PendingReconnects == IF reconnectTimeout = "armed" THEN 1 ELSE 0

\* C37: single connection resources: in every reachable state of the native
\* client, over all interleavings of start, stop, socket open, socket close
\* and timer expiry, at most one socket is live, at most one heartbeat timer
\* is active and at most one reconnect timer is pending.
SingleConnectionResources ==
  /\ LiveSockets <= 1
  /\ ActiveHeartbeats <= 1
  /\ PendingReconnects <= 1

\* C38: start settles: the promise start() of the native client returns
\* eventually resolves (the socket opened) or rejects, also when the first
\* socket closes before it opens.
StartSettles == (startPromise \in PendingPromise) ~> (startPromise \in SettledPromise)

\* C39: mention flag consistency: a group event that is handed on after
\* passing the mention requirement (requireMention set, the bot's id or name
\* known, the bot mentioned by id or by name) carries WasMentioned = true.
MentionFlagConsistent ==
  (/\ BuiltGroup
   /\ lastGate.allowed
   /\ account.requireMention
   /\ Truthy(account.botOpenId) \/ Truthy(account.botName))
    => lastGate.ctxPayload.WasMentioned = TRUE

(***************************************************************************)
(* The gateway with the way every dispatch settles recorded.               *)
(***************************************************************************)
InitDispatch ==
  /\ DedupeIdle
  /\ HistoryIdle
  /\ PipeIdle

NextDispatch ==
  \/ \E id \in InboundIds :
       Deliver(id) /\ UNCHANGED <<historyVars, gateVars, wsVars, renderVars, resolveVars,
                                  horizonVars>>
  \/ \E i \in 1..MaxDeliveries : \E ok \in BOOLEAN :
       ContextBuilt(i, ok) /\ UNCHANGED <<gateVars, wsVars, renderVars, resolveVars,
                                          horizonVars>>
  \/ \E i \in 1..MaxDeliveries :
       BlockedRecorded(i) /\ UNCHANGED <<gateVars, wsVars, renderVars, resolveVars,
                                         horizonVars>>
  \/ \E i \in 1..MaxDeliveries : \E ok \in BOOLEAN :
       SessionRecorded(i, ok) /\ UNCHANGED <<gateVars, wsVars, renderVars, resolveVars,
                                             horizonVars>>
  \/ \E i \in 1..MaxDeliveries : \E outcome \in DispatchOutcomes :
       /\ Dispatched(i, outcome) /\ DispatchSettled(i, outcome)
       /\ UNCHANGED <<gateVars, wsVars, renderVars, lastFetch, gateReached, horizonVars>>

SpecDispatch == InitDispatch /\ [][NextDispatch]_vars

\* the pending history of the chat of message id
PendingOf(histories, id) == MapGetOrEmpty(histories, InboundOf(id).chatId)

\* C40: history survives a failed dispatch: when the dispatch of an allowed
\* group event fails or produces no reply, the pending history of the chat is
\* left in place; it is cleared only after a reply was produced.
HistoryKeptWithoutReply ==
  [][(/\ lastDispatch' # lastDispatch
      /\ IsGroup(lastDispatch'.id)
      /\ lastDispatch'.outcome # "replied")
       => PendingOf(groupHistories', lastDispatch'.id)
            = PendingOf(groupHistories, lastDispatch'.id)]_vars

====
